---- MODULE Spec2Model ----
(***************************************************************************)
(* Model of the i2c_t3 driver (i2c_t3.cpp / i2c_t3.h, Teensy 3.1 build:    *)
(* SDA-rising STOP detection, I2C_AUTO_RETRY defined).                      *)
(*                                                                         *)
(* One bus context is a record (struct i2cStruct plus the peripheral       *)
(* registers it points to and the DMA channel it owns).  Every routine of  *)
(* the driver is an operator from context to context; the actions of the   *)
(* specifications apply these operators.  Mainline code is a small program *)
(* counter (pc) with the parameters of the call in progress (call); the    *)
(* interrupt handlers are separate actions that may run between any two    *)
(* mainline steps whenever their interrupt is pending and able to preempt. *)
(*                                                                         *)
(* Environment assumptions (hardware, not code of the repository):         *)
(*  - a byte started by a write or read of the data register completes in  *)
(*    a later step (HwTxByte, HwRxByte) which raises IICIF;                *)
(*  - with C1.DMAEN set a byte completion raises a DMA request instead of  *)
(*    an interrupt;                                                        *)
(*  - the acknowledge bit sent for a received byte is C1.TXAK at the time  *)
(*    the byte completes;                                                  *)
(*  - C1 holds what the code wrote (RSTA reads back as 0).                 *)
(*                                                                         *)
(* Specifications: Spec (a master, calls from thread mode), SpecRole (the  *)
(* same with a slave beside it), SpecLive (one blocking call from any      *)
(* priority, with fairness), SpecNoResp (a bus on which no byte ever       *)
(* completes), SpecEq (two contexts, i2c and alt, in different modes       *)
(* given the same calls and the same answers of the bus), SpecAsync (the   *)
(* non-blocking calls, finish and the calls made while a transfer runs),   *)
(* SpecSlave (a slave answering a range of addresses, with callbacks),     *)
(* SpecBuf (filling the transmit buffer), SpecRepeat (one blocking         *)
(* receive followed by a second one), SpecRead (receives and reads of the  *)
(* receive buffer, master and slave), SpecStall (Immediate-mode calls      *)
(* with a timeout, under fairness), SpecFinish (finish with a timeout in   *)
(* the three modes, under fairness), SpecAnswer (a slave read by the       *)
(* master on the bus) and SpecReset (the bus recovery, pulse by pulse).    *)
(***************************************************************************)
EXTENDS Integers, Sequences, FiniteSets, TLC

VARIABLES i2c, pc, call, irqPriority, dmaIrqPriority, app, alt

vars == <<i2c, pc, call, irqPriority, dmaIrqPriority, app, alt>>

-----------------------------------------------------------------------------
(* Bounds and program constants *)

MaxTxLen == 5
MaxRxLen == 5
MaxPrioLevel == 1

I2C_TX_BUFFER_LENGTH == MaxTxLen
I2C_RX_BUFFER_LENGTH == MaxRxLen

DmaMinLen == 5
PrioStep == 16

Timeouts == {0, 50}
Targets == {68}
RangeAddrs == {68, 69}
WriteBytes == {1, 2}
NextLens == {2, 3}
DataBytes == {16}
DefaultPrio == PrioStep * MaxPrioLevel
CallerPrios == {PrioStep * k : k \in 0..(MaxPrioLevel + 1)}
Fills == {2}
ReqLens == {0, 1, 2, DmaMinLen, I2C_RX_BUFFER_LENGTH + 1}

i2c_status == {"I2C_WAITING", "I2C_SENDING", "I2C_SEND_ADDR", "I2C_RECEIVING",
               "I2C_TIMEOUT", "I2C_ADDR_NAK", "I2C_DATA_NAK", "I2C_ARB_LOST",
               "I2C_BUF_OVF", "I2C_SLAVE_TX", "I2C_SLAVE_RX"}
i2c_op_mode == {"I2C_OP_MODE_IMM", "I2C_OP_MODE_ISR", "I2C_OP_MODE_DMA"}
i2c_mode == {"I2C_MASTER", "I2C_SLAVE"}
i2c_stop == {"I2C_NOSTOP", "I2C_STOP"}
i2c_dma_state == {"I2C_DMA_OFF", "I2C_DMA_ADDR", "I2C_DMA_BULK", "I2C_DMA_LAST"}

(* the byte the application writes to place k of the transmit buffer *)
TxData == [k \in 0..MaxTxLen |-> 16 + k]

(* byte k handed out by the simulated slave *)
SlaveData(k) == 32 + k

-----------------------------------------------------------------------------
(* The context after static initialisation *)

(* enum i2c_err_count: the error counters of a context *)
i2c_err_count ==
  {"I2C_ERRCNT_RESET_BUS", "I2C_ERRCNT_TIMEOUT", "I2C_ERRCNT_ADDR_NAK",
   "I2C_ERRCNT_DATA_NAK", "I2C_ERRCNT_ARBL", "I2C_ERRCNT_NOT_ACQ",
   "I2C_ERRCNT_DMA_ERR"}

i2cData ==
  [ rxBuffer |-> [k \in 0..(I2C_RX_BUFFER_LENGTH - 1) |-> 0],
    rxBufferIndex |-> 0, rxBufferLength |-> 0,
    txBuffer |-> [k \in 0..(I2C_TX_BUFFER_LENGTH - 1) |-> 0],
    txBufferIndex |-> 0, txBufferLength |-> 0,
    opMode |-> "I2C_OP_MODE_ISR", currentMode |-> "I2C_MASTER",
    currentStop |-> "I2C_STOP", currentStatus |-> "I2C_WAITING",
    rxAddr |-> 0, reqCount |-> 0, irqCount |-> 0, timeoutRxNAK |-> 0,
    activeDMA |-> "I2C_DMA_OFF",
    user_onReceive |-> FALSE, user_onRequest |-> FALSE,
    DMA |-> FALSE, defTimeout |-> 0,
    writeError |-> FALSE,
    \* peripheral registers
    C1 |-> {}, S |-> {}, D |-> 0,
    \* bus side of the peripheral
    flight |-> "none", extBusy |-> FALSE, sdaIsr |-> FALSE, A1 |-> 0,
    RA |-> 0,
    \* DMA channel
    dmaCnt |-> 0, dmaIdx |-> 0, dmaEn |-> FALSE,
    dmaComplete |-> FALSE, dmaInt |-> FALSE, dmaError |-> FALSE,
    \* observations of the transfer in progress (history only)
    gStop |-> FALSE, gAcq |-> "none", gWire |-> 0, gNak |-> -1,
    gAcks |-> << >>, gEvents |-> FALSE, gKind |-> "none",
    gOvf |-> FALSE, gCbRecv |-> -1, gArbl |-> FALSE,
    gDmaErr |-> FALSE, gResets |-> 0,
    \* the slave transaction on the bus: the address it matched, whether it
    \* is a write still in progress, the address of the write that ended
    \* last; and what the latest callback saw and what it handled
    gMatch |-> 0, gWr |-> FALSE, gEnded |-> 0,
    gCbAddr |-> -1, gCbWant |-> -1,
    \* how often on-receive was invoked since the handler last began to
    \* store a slave receive
    gCbN |-> 0,
    \* what ended the write transaction that ended last: a STOP or a
    \* repeated START
    gEndedBy |-> "none",
    \* bytes handed to the master since this device was addressed, counted
    \* up to the first one past the end of the buffer
    gSent |-> 0,
    errCounts |-> [k \in i2c_err_count |-> 0] ]

-----------------------------------------------------------------------------
(* Register access *)

BusBusy(c) == "MST" \in c.C1 \/ c.extBusy

(* *(i2c->C1) = v : a 1->0 change of MST is a STOP, 0->1 a START *)
WriteC1(c, v) ==
  LET wasM == "MST" \in c.C1
      isM == "MST" \in v
      turn == ("TX" \in v) # ("TX" \in c.C1)
  IN [c EXCEPT !.C1 = v \ {"RSTA"},
               !.S = @ \ {"IAAS"},
               !.gStop = IF wasM /\ ~isM THEN TRUE ELSE @,
               !.flight = IF (wasM /\ ~isM) \/ turn \/ "RSTA" \in v
                          THEN "none" ELSE @]

(* *(i2c->S) = flags : write-one-to-clear *)
ClearS(c, flags) == [c EXCEPT !.S = @ \ flags]

(* *(i2c->D) = b : in master transmit mode this starts a byte on the wire *)
WriteD(c, b) ==
  IF "TX" \in c.C1
  THEN [c EXCEPT !.D = b, !.flight = IF "MST" \in c.C1 THEN "tx" ELSE "stx",
                 !.S = @ \ {"TCF"},
                 !.gWire = IF "MST" \in c.C1 /\ @ < MaxTxLen + 1 THEN @ + 1 ELSE @,
                 !.gSent = IF "MST" \notin c.C1 /\ @ <= c.txBufferLength
                           THEN @ + 1 ELSE @]
  ELSE c

(* x = *(i2c->D) : in master receive mode this starts reception of the next byte *)
ReadD(c) ==
  IF "MST" \in c.C1 /\ "TX" \notin c.C1
  THEN [c EXCEPT !.flight = "rx", !.S = @ \ {"TCF"}]
  ELSE c


(* rxBuffer[rxBufferLength++] = b *)
StoreRx(c, b) ==
  [c EXCEPT !.rxBuffer = IF c.rxBufferLength < I2C_RX_BUFFER_LENGTH
                         THEN [@ EXCEPT ![c.rxBufferLength] = b] ELSE @,
            !.gOvf = @ \/ c.rxBufferLength >= I2C_RX_BUFFER_LENGTH,
            !.rxBufferLength = IF @ <= I2C_RX_BUFFER_LENGTH THEN @ + 1 ELSE @]

(* history of the transfer in progress starts afresh with every transfer *)
NewTransfer(c, kind) ==
  [c EXCEPT !.gStop = FALSE, !.gAcq = "none", !.gWire = 0, !.gNak = -1,
            !.gAcks = << >>, !.gEvents = FALSE, !.gKind = kind,
            !.gArbl = FALSE, !.gDmaErr = FALSE, !.gResets = 0]

-----------------------------------------------------------------------------
(* Status helpers *)

done_(c) ==
  c.currentStatus \in {"I2C_WAITING", "I2C_ADDR_NAK", "I2C_DATA_NAK",
                       "I2C_ARB_LOST", "I2C_TIMEOUT", "I2C_BUF_OVF"}

(* variant: the write-error flag is looked at first *)
getError_WriteErrorFirst(c) ==
  IF c.writeError THEN 1
  ELSE CASE c.currentStatus = "I2C_BUF_OVF" -> 1
         [] c.currentStatus = "I2C_ADDR_NAK" -> 2
         [] c.currentStatus = "I2C_DATA_NAK" -> 3
         [] c.currentStatus = "I2C_ARB_LOST" -> 4
         [] c.currentStatus = "I2C_TIMEOUT" -> 4
         [] OTHER -> 0

getError(c) ==
  CASE c.currentStatus = "I2C_BUF_OVF" -> 1
    [] c.currentStatus = "I2C_ADDR_NAK" -> 2
    [] c.currentStatus = "I2C_DATA_NAK" -> 3
    [] c.currentStatus = "I2C_ARB_LOST" -> 4
    [] c.currentStatus = "I2C_TIMEOUT" -> 4
    [] OTHER -> IF c.writeError THEN 1 ELSE 0

EffTimeout(c, timeout) == IF timeout = 0 THEN c.defTimeout ELSE timeout

-----------------------------------------------------------------------------
(* Bus acquisition *)

(* resetBus_: SCL is toggled until SDA is released; freed tells whether the *)
(* device holding the bus let go                                           *)
resetBus_(c, freed) ==
  [c EXCEPT !.currentStatus = "I2C_WAITING",
            !.extBusy = @ /\ ~freed,
            !.gResets = @ + 1]

BecomeMaster(c, how) ==
  [WriteC1([c EXCEPT !.currentMode = "I2C_MASTER"], {"IICEN", "MST", "TX"})
     EXCEPT !.gAcq = how]

(* variant: after the retry the START is sent whether the bus is free or not *)
AcquireClaim_NoBusyCheck(c, freed) ==
  IF "MST" \in c.C1
  THEN [WriteC1(c, {"IICEN", "MST", "RSTA", "TX"}) EXCEPT !.gAcq = "rsta"]
  ELSE IF ~BusBusy(c)
  THEN BecomeMaster(c, "start")
  ELSE BecomeMaster(resetBus_(c, freed), "retry")

(* variant: the recovery is tried again when the first one did not free  *)
(* the bus                                                                *)
AcquireClaim_RetryTwice(c, freed) ==
  IF "MST" \in c.C1
  THEN [WriteC1(c, {"IICEN", "MST", "RSTA", "TX"}) EXCEPT !.gAcq = "rsta"]
  ELSE IF ~BusBusy(c)
  THEN BecomeMaster(c, "start")
  ELSE LET r == resetBus_(c, freed)
           q == IF BusBusy(r) THEN resetBus_(r, freed) ELSE r
       IN IF ~BusBusy(q)
          THEN BecomeMaster(q, "retry")
          ELSE [q EXCEPT !.currentStatus = "I2C_TIMEOUT", !.gAcq = "fail"]

(* acquireBus_, bus part.  The poll loop leaves with the bus still busy only *)
(* when the timeout has elapsed (the action that calls this waits otherwise) *)
AcquireClaim(c, freed) ==
  IF "MST" \in c.C1
  THEN [WriteC1(c, {"IICEN", "MST", "RSTA", "TX"}) EXCEPT !.gAcq = "rsta"]
  ELSE IF ~BusBusy(c)
  THEN BecomeMaster(c, "start")
  ELSE LET r == resetBus_(c, freed)
       IN IF ~BusBusy(r)
          THEN BecomeMaster(r, "retry")
          ELSE [r EXCEPT !.currentStatus = "I2C_TIMEOUT", !.gAcq = "fail"]

(* variant: the priority of the interrupt is never changed *)
PriorityCheck_NoEscalate(opMode, currPriority, irq) ==
  IF opMode \in {"I2C_OP_MODE_ISR", "I2C_OP_MODE_DMA"} /\ currPriority <= irq
  THEN [forceImm |-> currPriority < PrioStep, irq |-> irq]
  ELSE [forceImm |-> FALSE, irq |-> irq]

(* acquireBus_, priority part: [forceImm, irq] *)
PriorityCheck(opMode, currPriority, irq) ==
  IF opMode \in {"I2C_OP_MODE_ISR", "I2C_OP_MODE_DMA"} /\ currPriority <= irq
  THEN IF currPriority < PrioStep
       THEN [forceImm |-> TRUE, irq |-> irq]
       ELSE [forceImm |-> FALSE, irq |-> currPriority - PrioStep]
  ELSE [forceImm |-> FALSE, irq |-> irq]

acquireBus_(c, currPriority, irq, freed) ==
  LET a == AcquireClaim(c, freed)
      p == PriorityCheck(a.opMode, currPriority, irq)
  IN IF "MST" \notin a.C1
     THEN [c |-> a, ok |-> FALSE, forceImm |-> FALSE, irq |-> irq]
     ELSE [c |-> a, ok |-> TRUE, forceImm |-> p.forceImm, irq |-> p.irq]

(* the poll loop of acquireBus_ can end *)
AcquireCanReturn(c, timeout) ==
  "MST" \in c.C1 \/ ~BusBusy(c) \/ timeout # 0

-----------------------------------------------------------------------------
(* Master transmit *)

(* variant: the first byte sent is the one after the address *)
IsrTxStart_SkipAddr(c, sendStop) ==
  LET a == [c EXCEPT !.currentStatus = "I2C_SENDING", !.currentStop = sendStop,
                     !.txBufferIndex = 0]
  IN WriteD(WriteC1(a, {"IICEN", "IICIE", "MST", "TX"}), a.txBuffer[1])

(* sendTransmission_, ISR/DMA branch *)
IsrTxStart(c, sendStop) ==
  LET a == [c EXCEPT !.currentStatus = "I2C_SENDING", !.currentStop = sendStop,
                     !.txBufferIndex = 0]
      b == IF a.opMode = "I2C_OP_MODE_DMA" /\ a.txBufferLength >= DmaMinLen
           THEN [a EXCEPT !.activeDMA = "I2C_DMA_ADDR",
                          !.dmaIdx = 2, !.dmaCnt = a.txBufferLength - 3]
           ELSE a
      d == WriteC1(b, {"IICEN", "IICIE", "MST", "TX"})
  IN WriteD(d, d.txBuffer[0])

(* sendTransmission_, Immediate branch: entry *)
ImmTxStart(c, sendStop) ==
  [c EXCEPT !.currentStatus = "I2C_SENDING", !.currentStop = sendStop]

(* sendTransmission_, Immediate branch: the checks after i2c_wait_ for byte idx; *)
(* brk tells whether the loop is left by break                                *)
ImmTxCheck(c, idx) ==
  IF "ARBL" \in c.S
  THEN [c |-> ClearS(WriteC1([c EXCEPT !.currentStatus = "I2C_ARB_LOST"], {"IICEN"}),
                     {"ARBL"}),
        brk |-> TRUE]
  ELSE IF "RXAK" \in c.S
  THEN [c |-> WriteC1([c EXCEPT !.currentStatus =
                          IF idx = 0 THEN "I2C_ADDR_NAK" ELSE "I2C_DATA_NAK"],
                      {"IICEN"}),
        brk |-> TRUE]
  ELSE [c |-> c, brk |-> FALSE]

(* sendTransmission_, Immediate branch: "Set final status" and "send STOP if configured" *)
ImmTxFinal(c, idx) ==
  LET a == [c EXCEPT !.currentStatus =
               IF idx < c.txBufferLength THEN "I2C_TIMEOUT" ELSE "I2C_WAITING"]
  IN IF a.currentStop = "I2C_STOP"
     THEN WriteC1(a, {"IICEN"})
     ELSE WriteC1(a, {"IICEN", "MST", "TX"})

-----------------------------------------------------------------------------
(* Interrupt handler, master mode *)

(* Master Tx, "end DMA Tx" part: activeDMA is BULK or LAST *)
IsrMasterTxDma(c) ==
  IF c.dmaComplete /\ c.activeDMA = "I2C_DMA_BULK"
  THEN ClearS([WriteC1([c EXCEPT !.dmaInt = FALSE], {"IICEN", "IICIE", "MST", "TX"})
                 EXCEPT !.activeDMA = "I2C_DMA_LAST"], {"IICIF"})
  ELSE IF c.activeDMA = "I2C_DMA_LAST"
  THEN LET a == [c EXCEPT !.dmaComplete = FALSE, !.activeDMA = "I2C_DMA_OFF",
                          !.txBufferIndex = c.txBufferLength - 1]
       IN ClearS(WriteD(a, a.txBuffer[a.txBufferIndex]), {"IICIF"})
  ELSE IF c.dmaError
  THEN LET a == [c EXCEPT !.dmaInt = FALSE, !.dmaError = FALSE,
                          !.activeDMA = "I2C_DMA_OFF"]
       IN IF "ARBL" \in c.S
          THEN [ClearS(WriteC1([a EXCEPT !.currentStatus = "I2C_ARB_LOST"], {"IICEN"}),
                       {"ARBL", "IICIF"})
                  EXCEPT !.txBufferIndex = 0]
          ELSE ClearS(a, {"IICIF"})
  ELSE ClearS(c, {"IICIF"})

(* variant: STOP whatever the caller asked for *)
IsrTxComplete_AlwaysStop(c) == WriteC1(c, {"IICEN"})

(* Master Tx, status I2C_SENDING: C1 written when the last byte was acknowledged *)
IsrTxComplete(c) ==
  IF c.currentStop = "I2C_STOP"
  THEN WriteC1(c, {"IICEN"})
  ELSE WriteC1(c, {"IICEN", "MST", "TX"})

(* Master Tx, status I2C_SENDING: status after a byte that was not acknowledged *)
IsrTxNakStatus(c) ==
  IF c.txBufferIndex = 0 THEN "I2C_ADDR_NAK" ELSE "I2C_DATA_NAK"

(* Master Tx, status I2C_SENDING *)
IsrMasterSending(c) ==
  IF "ARBL" \in c.S
  THEN [ClearS(WriteC1([c EXCEPT !.activeDMA = "I2C_DMA_OFF",
                                 !.currentStatus = "I2C_ARB_LOST"], {"IICEN"}),
               {"ARBL", "IICIF"})
          EXCEPT !.txBufferIndex = 0]
  ELSE IF "RXAK" \in c.S
  THEN ClearS(WriteC1([c EXCEPT !.activeDMA = "I2C_DMA_OFF",
                                !.currentStatus = IsrTxNakStatus(c)], {"IICEN"}),
              {"IICIF"})
  ELSE LET a == [c EXCEPT !.txBufferIndex = @ + 1]
       IN IF a.txBufferIndex >= a.txBufferLength
          THEN ClearS(IsrTxComplete([a EXCEPT !.currentStatus = "I2C_WAITING"]),
                      {"IICIF"})
          ELSE IF a.activeDMA = "I2C_DMA_ADDR"
          THEN LET b == WriteC1([a EXCEPT !.activeDMA = "I2C_DMA_BULK"],
                                {"IICEN", "IICIE", "MST", "TX", "DMAEN"})
               IN ClearS(WriteD([b EXCEPT !.dmaEn = TRUE], b.txBuffer[1]), {"IICIF"})
          ELSE ClearS(WriteD(a, a.txBuffer[a.txBufferIndex]), {"IICIF"})

(* variant: NAK-on-receive is left to the receive handler *)
RxModeC1_NoNak(c, intr) == {"IICEN", "MST"} \cup intr

(* Master Rx, address acknowledged: C1 written when switching to receive *)
RxModeC1(c, intr) ==
  IF c.reqCount = 1
  THEN {"IICEN", "MST", "TXAK"} \cup intr
  ELSE {"IICEN", "MST"} \cup intr

(* Master Tx mode, status I2C_SEND_ADDR: the address of a receive was sent *)
IsrMasterSendAddr(c) ==
  IF "ARBL" \in c.S
  THEN ClearS(WriteC1([c EXCEPT !.currentStatus = "I2C_ARB_LOST"], {"IICEN"}),
              {"ARBL", "IICIF"})
  ELSE IF "RXAK" \in c.S
  THEN ClearS(WriteC1([c EXCEPT !.currentStatus = "I2C_ADDR_NAK"], {"IICEN"}),
              {"IICIF"})
  ELSE IF c.activeDMA = "I2C_DMA_ADDR"
  THEN LET b == WriteC1([c EXCEPT !.activeDMA = "I2C_DMA_BULK"],
                        {"IICEN", "IICIE", "MST", "DMAEN"})
       IN ClearS(ReadD([b EXCEPT !.dmaEn = TRUE]), {"IICIF"})
  ELSE LET b == [c EXCEPT !.currentStatus = "I2C_RECEIVING"]
       IN ClearS(ReadD(WriteC1(b, RxModeC1(b, {"IICIE"}))), {"IICIF"})

(* variant: after a timeout the interrupt is left enabled *)
IsrMasterTxOther_KeepIntr(c) ==
  IF c.currentStatus = "I2C_TIMEOUT"
  THEN IF c.currentStop = "I2C_STOP"
       THEN ClearS(WriteC1(c, {"IICEN", "IICIE"}), {"IICIF"})
       ELSE ClearS(WriteC1(c, {"IICEN", "IICIE", "MST", "TX"}), {"IICIF"})
  ELSE ClearS(WriteC1(c, {"IICEN"}), {"IICIF"})

(* variant: a transmit that timed out is taken up again *)
IsrMasterTxOther_Resume(c) ==
  ClearS(WriteC1([c EXCEPT !.currentStatus = "I2C_SENDING"], {"IICEN", "MST", "TX"}),
         {"IICIF"})

(* Master Tx mode, status I2C_TIMEOUT, and the "should not be in Tx mode" case *)
IsrMasterTxOther(c) ==
  IF c.currentStatus = "I2C_TIMEOUT" /\ c.currentStop # "I2C_STOP"
  THEN ClearS(WriteC1(c, {"IICEN", "MST", "TX"}), {"IICIF"})
  ELSE ClearS(WriteC1(c, {"IICEN"}), {"IICIF"})

IsrMasterTx(c) ==
  IF c.activeDMA \in {"I2C_DMA_BULK", "I2C_DMA_LAST"} THEN IsrMasterTxDma(c)
  ELSE IF c.currentStatus = "I2C_SENDING" THEN IsrMasterSending(c)
  ELSE IF c.currentStatus = "I2C_SEND_ADDR" THEN IsrMasterSendAddr(c)
  ELSE IsrMasterTxOther(c)

(* Master Rx: last byte taken, "change to Tx mode", "grab last data", STOP if configured *)
RxLastByte(c) ==
  LET a == StoreRx(ReadD(WriteC1(c, {"IICEN", "MST", "TX"})), c.D)
  IN IF a.currentStop = "I2C_STOP" THEN WriteC1(a, {"IICEN"}) ELSE a

(* Master Rx, "end DMA Rx" part: activeDMA is BULK or LAST *)
IsrMasterRxDma(c) ==
  IF c.dmaComplete /\ c.activeDMA = "I2C_DMA_BULK"
  THEN ClearS([WriteC1([c EXCEPT !.dmaInt = FALSE], {"IICEN", "IICIE", "MST", "TXAK"})
                 EXCEPT !.activeDMA = "I2C_DMA_LAST"], {"IICIF"})
  ELSE IF c.activeDMA = "I2C_DMA_LAST"
  THEN LET a == [c EXCEPT !.dmaComplete = FALSE, !.activeDMA = "I2C_DMA_OFF",
                          !.currentStatus = IF @ # "I2C_TIMEOUT" THEN "I2C_WAITING" ELSE @]
           b == WriteC1(a, {"IICEN", "MST", "TX"})
           d == StoreRx(ReadD([b EXCEPT !.rxBufferLength = b.reqCount - 1]), b.D)
       IN ClearS(IF d.currentStop = "I2C_STOP" THEN WriteC1(d, {"IICEN"}) ELSE d,
                 {"IICIF"})
  ELSE IF c.dmaError
  THEN ClearS(WriteC1([c EXCEPT !.dmaError = FALSE, !.dmaInt = FALSE,
                                !.activeDMA = "I2C_DMA_OFF",
                                !.currentStatus = "I2C_WAITING"], {"IICEN"}),
              {"IICIF"})
  ELSE ClearS(c, {"IICIF"})

(* variant: NAK-on-receive is configured one byte early *)
IsrMasterRxByte_NakEarly(c) ==
  LET tmo == c.currentStatus = "I2C_TIMEOUT"
      a == IF (c.rxBufferLength + 3) = c.reqCount \/ (tmo /\ c.timeoutRxNAK = 0)
           THEN WriteC1(c, {"IICEN", "IICIE", "MST", "TXAK"})
           ELSE c
      b == IF (a.rxBufferLength + 1) >= a.reqCount \/ (tmo /\ a.timeoutRxNAK # 0)
           THEN RxLastByte([a EXCEPT !.timeoutRxNAK = 0,
                                     !.currentStatus = IF @ # "I2C_TIMEOUT"
                                                       THEN "I2C_WAITING" ELSE @])
           ELSE StoreRx(ReadD(a), a.D)
      d == IF b.currentStatus = "I2C_TIMEOUT" /\ b.timeoutRxNAK = 0
           THEN [b EXCEPT !.timeoutRxNAK = 1]
           ELSE b
  IN ClearS(d, {"IICIF"})

(* Master Rx without DMA *)
IsrMasterRxByte(c) ==
  LET tmo == c.currentStatus = "I2C_TIMEOUT"
      a == IF (c.rxBufferLength + 2) = c.reqCount \/ (tmo /\ c.timeoutRxNAK = 0)
           THEN WriteC1(c, {"IICEN", "IICIE", "MST", "TXAK"})
           ELSE c
      b == IF (a.rxBufferLength + 1) >= a.reqCount \/ (tmo /\ a.timeoutRxNAK # 0)
           THEN RxLastByte([a EXCEPT !.timeoutRxNAK = 0,
                                     !.currentStatus = IF @ # "I2C_TIMEOUT"
                                                       THEN "I2C_WAITING" ELSE @])
           ELSE StoreRx(ReadD(a), a.D)
      d == IF b.currentStatus = "I2C_TIMEOUT" /\ b.timeoutRxNAK = 0
           THEN [b EXCEPT !.timeoutRxNAK = 1]
           ELSE b
  IN ClearS(d, {"IICIF"})

IsrMasterRx(c) ==
  IF c.activeDMA \in {"I2C_DMA_BULK", "I2C_DMA_LAST"}
  THEN IsrMasterRxDma(c)
  ELSE IsrMasterRxByte(c)

-----------------------------------------------------------------------------
(* Interrupt handler, slave mode *)

(* write(data) as the on-request callback uses it *)
WriteByte(c, data) ==
  IF c.txBufferLength < I2C_TX_BUFFER_LENGTH
  THEN [c EXCEPT !.txBuffer[c.txBufferLength] = data,
                 !.txBufferLength = @ + 1]
  ELSE [c EXCEPT !.writeError = TRUE]

RECURSIVE OnRequest(_, _)
(* the user's on-request callback writing n bytes *)
OnRequest(c, n) ==
  IF n = 0 THEN c ELSE WriteByte(OnRequest(c, n - 1), 16 + n)

(* getRxAddr() as a callback sees it; want is the address matched by the *)
(* transaction the callback is invoked for                                 *)
getRxAddr(c, want) == [c EXCEPT !.gCbAddr = c.rxAddr, !.gCbWant = want]

(* the user's on-receive callback, called with len *)
OnReceive(c, len) ==
  getRxAddr([c EXCEPT !.gCbRecv = len, !.gCbN = IF @ < 3 THEN @ + 1 ELSE @],
            c.gEnded)

(* variant: the callback is given the length after it has been cleared *)
IsrSlaveRepStart_AfterClear(c) ==
  IF c.currentStatus = "I2C_SLAVE_RX" /\ c.user_onReceive
  THEN OnReceive([c EXCEPT !.rxBufferIndex = 0], 0)
  ELSE c

(* "If in Slave Rx already, then RepSTART occured, run callback" *)
IsrSlaveRepStart(c) ==
  IF c.currentStatus = "I2C_SLAVE_RX" /\ c.user_onReceive
  THEN OnReceive([c EXCEPT !.rxBufferIndex = 0], c.rxBufferLength)
  ELSE c

(* Addressed as slave (IAAS) *)
IsrSlaveAddressed(c, fill) ==
  LET r == IsrSlaveRepStart(c)
  IN IF "SRW" \in c.S
     THEN LET a == WriteC1([r EXCEPT !.currentStatus = "I2C_SLAVE_TX",
                                     !.txBufferLength = 0],
                           {"IICEN", "IICIE", "TX"})
              b == [a EXCEPT !.rxAddr = a.D \div 2]
              d == IF b.user_onRequest THEN OnRequest(getRxAddr(b, b.gMatch), fill) ELSE b
              e == IF d.txBufferLength = 0 THEN [d EXCEPT !.txBuffer[0] = 0] ELSE d
          IN ClearS([WriteD(e, e.txBuffer[0]) EXCEPT !.txBufferIndex = 1], {"IICIF"})
     ELSE LET a == [r EXCEPT !.irqCount = 0, !.sdaIsr = TRUE,
                             !.currentStatus = "I2C_SLAVE_RX",
                             !.rxBufferLength = 0, !.gCbN = 0]
              b == WriteC1(a, {"IICEN", "IICIE"})
          IN ClearS([b EXCEPT !.rxAddr = b.D \div 2], {"IICIF"})

(* variant: past the end of the buffer the last byte is sent again *)
IsrSlaveTx_RepeatLast(c) ==
  IF "RXAK" \notin c.S
  THEN LET data == IF c.txBufferIndex < c.txBufferLength
                   THEN c.txBuffer[c.txBufferIndex] ELSE c.D
           a == [c EXCEPT !.txBufferIndex =
                    IF c.txBufferIndex < c.txBufferLength THEN @ + 1 ELSE @]
       IN ClearS(WriteC1(WriteD(a, data), {"IICEN", "IICIE", "TX"}), {"IICIF"})
  ELSE ClearS([WriteC1(c, {"IICEN", "IICIE"}) EXCEPT !.currentStatus = "I2C_WAITING"],
              {"IICIF"})

(* Continue Slave Transmit *)
IsrSlaveTx(c) ==
  IF "RXAK" \notin c.S
  THEN LET data == IF c.txBufferIndex < c.txBufferLength
                   THEN c.txBuffer[c.txBufferIndex] ELSE 0
           a == [c EXCEPT !.txBufferIndex =
                    IF c.txBufferIndex < c.txBufferLength THEN @ + 1 ELSE @]
       IN ClearS(WriteC1(WriteD(a, data), {"IICEN", "IICIE", "TX"}), {"IICIF"})
  ELSE ClearS([WriteC1(c, {"IICEN", "IICIE"}) EXCEPT !.currentStatus = "I2C_WAITING"],
              {"IICIF"})

(* Continue Slave Receive *)
IsrSlaveRx(c) ==
  LET a == [c EXCEPT !.irqCount = 0, !.sdaIsr = TRUE]
  IN ClearS(IF a.rxBufferLength < I2C_RX_BUFFER_LENGTH THEN StoreRx(a, a.D) ELSE a,
            {"IICIF"})

IsrSlave(c, fill) ==
  IF "ARBL" \in c.S /\ "IAAS" \notin c.S
  THEN ClearS(c, {"ARBL", "IICIF"})
  ELSE LET a == ClearS(c, {"ARBL"})
       IN IF "IAAS" \in c.S THEN IsrSlaveAddressed(a, fill)
          ELSE IF "TX" \in c.C1 THEN IsrSlaveTx(a)
          ELSE IsrSlaveRx(a)

(* i2c_isr_handler; fill is what the on-request callback does when it is called *)
i2c_isr_handler(c, fill) ==
  IF "MST" \in c.C1
  THEN IF "TX" \in c.C1 THEN IsrMasterTx(c) ELSE IsrMasterRx(c)
  ELSE IsrSlave(c, fill)

(* variant: the edge interrupt stays attached one busy trigger longer *)
sda_rising_isr_handler_Three(c) ==
  IF ~BusBusy(c)
  THEN LET a == [c EXCEPT !.currentStatus = "I2C_WAITING", !.sdaIsr = FALSE]
       IN IF a.user_onReceive
          THEN OnReceive([a EXCEPT !.rxBufferIndex = 0], a.rxBufferLength)
          ELSE a
  ELSE LET a == [c EXCEPT !.irqCount = IF @ < 255 THEN @ + 1 ELSE 0]
       IN IF a.irqCount >= 3 \/ a.currentMode # "I2C_SLAVE"
          THEN [a EXCEPT !.sdaIsr = FALSE]
          ELSE a

(* sda_rising_isr_handler *)
sda_rising_isr_handler(c) ==
  IF ~BusBusy(c)
  THEN LET a == [c EXCEPT !.currentStatus = "I2C_WAITING", !.sdaIsr = FALSE]
       IN IF a.user_onReceive
          THEN OnReceive([a EXCEPT !.rxBufferIndex = 0], a.rxBufferLength)
          ELSE a
  ELSE LET a == [c EXCEPT !.irqCount = IF @ < 255 THEN @ + 1 ELSE 0]
       IN IF a.irqCount >= 2 \/ a.currentMode # "I2C_SLAVE"
          THEN [a EXCEPT !.sdaIsr = FALSE]
          ELSE a

-----------------------------------------------------------------------------
(* Master receive *)

(* sendRequest_, up to acquireBus_ *)
RequestSetup(c, len) ==
  ClearS([c EXCEPT !.reqCount = len, !.rxBufferIndex = 0, !.rxBufferLength = 0],
         {"IICIF", "ARBL"})

(* sendRequest_, ISR/DMA branch *)
IsrRxStart(c, addr, sendStop) ==
  LET a == [c EXCEPT !.currentStatus = "I2C_SEND_ADDR", !.currentStop = sendStop]
      b == IF a.opMode = "I2C_OP_MODE_DMA" /\ a.reqCount >= DmaMinLen
           THEN [a EXCEPT !.activeDMA = "I2C_DMA_ADDR",
                          !.dmaIdx = 0, !.dmaCnt = a.reqCount - 1]
           ELSE a
      d == WriteC1(b, {"IICEN", "IICIE", "MST", "TX"})
  IN WriteD(d, (addr * 2 + 1) % 256)

(* sendRequest_, Immediate branch: address byte sent *)
ImmRxStart(c, addr, sendStop) ==
  WriteD([c EXCEPT !.currentStatus = "I2C_SEND_ADDR", !.currentStop = sendStop],
         (addr * 2 + 1) % 256)

(* sendRequest_, Immediate branch: checks after the address byte *)
ImmRxAddrCheck(c) ==
  IF "ARBL" \in c.S
  THEN ClearS(WriteC1([c EXCEPT !.currentStatus = "I2C_ARB_LOST"], {"IICEN"}), {"ARBL"})
  ELSE IF "RXAK" \in c.S
  THEN WriteC1([c EXCEPT !.currentStatus = "I2C_ADDR_NAK"], {"IICEN"})
  ELSE LET b == [c EXCEPT !.currentStatus = "I2C_RECEIVING"]
       IN ReadD(WriteC1(b, RxModeC1(b, {})))

(* sendRequest_, Immediate branch: one turn of the receive loop after i2c_wait_ *)
ImmRxByte(c, chkTimeout) ==
  LET a == IF (c.rxBufferLength + 2) = c.reqCount \/ (chkTimeout /\ c.timeoutRxNAK = 0)
           THEN WriteC1(c, {"IICEN", "MST", "TXAK"})
           ELSE c
      b == IF (a.rxBufferLength + 1) >= a.reqCount \/ (chkTimeout /\ a.timeoutRxNAK # 0)
           THEN LET x == WriteC1([a EXCEPT !.timeoutRxNAK = 0], {"IICEN", "MST", "TX"})
                    y == [StoreRx(ReadD(x), x.D) EXCEPT !.currentStatus =
                             IF chkTimeout THEN "I2C_TIMEOUT" ELSE "I2C_WAITING"]
                IN IF y.currentStop = "I2C_STOP" THEN WriteC1(y, {"IICEN"}) ELSE y
           ELSE StoreRx(ReadD(a), a.D)
  IN IF chkTimeout THEN [b EXCEPT !.timeoutRxNAK = 1] ELSE b

ImmRxLoopCond(c) ==
  c.rxBufferLength < c.reqCount /\ c.currentStatus = "I2C_RECEIVING"

-----------------------------------------------------------------------------
(* Setup and buffer calls *)

(* variant: the mode is changed whether the bus is busy or not *)
setOpMode_NoBusyCheck(c, opMode, dmaAvail) ==
  LET a == ClearS(WriteC1(c, {"IICEN"}), {"IICIF", "ARBL"})
  IN IF opMode = "I2C_OP_MODE_DMA"
     THEN [a EXCEPT !.DMA = TRUE, !.activeDMA = "I2C_DMA_OFF",
                    !.opMode = "I2C_OP_MODE_DMA"]
     ELSE [a EXCEPT !.opMode = opMode]

(* setOpMode_; dmaAvail tells whether a DMA channel can be had *)
setOpMode_(c, opMode, dmaAvail) ==
  IF BusBusy(c) THEN c
  ELSE LET a == ClearS(WriteC1(c, {"IICEN"}), {"IICIF", "ARBL"})
           m == IF a.currentMode = "I2C_SLAVE" THEN "I2C_OP_MODE_ISR" ELSE opMode
       IN IF m = "I2C_OP_MODE_DMA"
          THEN IF a.DMA \/ dmaAvail
               THEN [a EXCEPT !.DMA = TRUE, !.activeDMA = "I2C_DMA_OFF",
                              !.opMode = "I2C_OP_MODE_DMA"]
               ELSE [a EXCEPT !.DMA = FALSE, !.opMode = "I2C_OP_MODE_ISR"]
          ELSE [a EXCEPT !.opMode = m]

(* begin_ *)
begin_(c, mode, address1, address2, opMode, dmaAvail) ==
  LET lo == IF address1 < address2 THEN address1 ELSE address2
      hi == IF address1 < address2 THEN address2 ELSE address1
      a == [c EXCEPT !.currentMode = mode, !.currentStatus = "I2C_WAITING",
                     !.A1 = IF mode = "I2C_MASTER" THEN 0
                            ELSE IF address2 # 0 THEN lo * 2 ELSE address1 * 2,
                     !.RA = IF mode = "I2C_MASTER" \/ address2 = 0 THEN 0
                            ELSE hi * 2]
      b == setOpMode_(a, opMode, dmaAvail)
  IN IF b.currentMode = "I2C_MASTER"
     THEN WriteC1(b, {"IICEN"})
     ELSE WriteC1(b, {"IICEN", "IICIE"})

beginTransmission(c, address) ==
  [c EXCEPT !.txBuffer[0] = (address * 2) % 256, !.txBufferLength = 1,
            !.writeError = FALSE, !.currentStatus = "I2C_WAITING"]

(* variant: the quantity is not cut down to the space that is left *)
write_NoTruncate(c, data, quantity) ==
  [c EXCEPT !.txBuffer = [k \in DOMAIN @ |->
                            IF k >= c.txBufferLength /\ k < c.txBufferLength + quantity
                            THEN data[k] ELSE @[k]],
            !.txBufferLength = @ + quantity]

(* write(data, quantity); data[k] is the byte handed in for buffer place k *)
write(c, data, quantity) ==
  IF c.txBufferLength < I2C_TX_BUFFER_LENGTH
  THEN LET avail == I2C_TX_BUFFER_LENGTH - c.txBufferLength
           q == IF quantity > avail THEN avail ELSE quantity
       IN [c EXCEPT !.writeError = @ \/ quantity > avail,
                    !.txBuffer = [k \in DOMAIN @ |->
                                    IF k >= c.txBufferLength /\ k < c.txBufferLength + q
                                    THEN data[k] ELSE @[k]],
                    !.txBufferLength = @ + q]
  ELSE [c EXCEPT !.writeError = TRUE]

(* the value write(data, quantity) returns *)
writeCount(c, quantity) ==
  IF c.txBufferLength < I2C_TX_BUFFER_LENGTH
  THEN LET avail == I2C_TX_BUFFER_LENGTH - c.txBufferLength
       IN IF quantity > avail THEN avail ELSE quantity
  ELSE 0

(* the value write(data) returns *)
WriteByteCount(c) == IF c.txBufferLength < I2C_TX_BUFFER_LENGTH THEN 1 ELSE 0

read_(c) ==
  IF c.rxBufferIndex >= c.rxBufferLength THEN c
  ELSE [c EXCEPT !.rxBufferIndex = @ + 1]

-----------------------------------------------------------------------------
(* The peripheral and the DMA channel *)

MaxAcks == MaxRxLen + 1
CountEvent(c) == [c EXCEPT !.gEvents = TRUE]

(* the DMA channel serves a request of the peripheral: one byte is moved, and *)
(* after the last one the channel disables itself and raises its interrupt    *)
DmaMove(c) ==
  LET last == c.dmaCnt = 1
      a == [c EXCEPT !.dmaCnt = @ - 1, !.dmaIdx = @ + 1,
                     !.dmaEn = ~last, !.dmaComplete = @ \/ last,
                     !.dmaInt = @ \/ last]
  IN IF "TX" \in c.C1
     THEN WriteD(a, c.txBuffer[c.dmaIdx])
     ELSE ReadD([a EXCEPT !.rxBuffer[c.dmaIdx] = c.D])

(* byte completion is signalled as an interrupt flag, or as a DMA request *)
Signal(c) ==
  IF "DMAEN" \in c.C1
  THEN IF c.dmaEn /\ c.dmaCnt > 0 THEN DmaMove(c) ELSE c
  ELSE [c EXCEPT !.S = @ \cup {"IICIF"}]

(* a byte sent as master has been clocked out; r is what the bus answered *)
HwTxDone(c, r) ==
  LET a == [c EXCEPT !.flight = "none",
                     !.S = (@ \ {"RXAK"}) \cup {"TCF"}
                           \cup (IF r = "NAK" THEN {"RXAK"} ELSE {})
                           \cup (IF r = "ARBL" THEN {"ARBL"} ELSE {}),
                     !.gNak = IF r = "NAK" /\ @ = -1 THEN c.gWire - 1 ELSE @,
                     !.gArbl = @ \/ r = "ARBL"]
  IN Signal(CountEvent(a))

(* a byte has been clocked in as master; the acknowledge bit sent is TXAK *)
HwRxDone(c) ==
  LET a == [c EXCEPT !.flight = "none", !.D = SlaveData(Len(c.gAcks)),
                     !.S = @ \cup {"TCF"},
                     !.gAcks = IF Len(@) < MaxAcks
                               THEN Append(@, "TXAK" \notin c.C1) ELSE @]
  IN Signal(CountEvent(a))

(* the DMA channel reports a bus error *)
HwDmaError(c) ==
  [c EXCEPT !.dmaError = TRUE, !.dmaInt = TRUE, !.dmaEn = FALSE,
            !.gDmaErr = TRUE]

(* a master on the bus addresses this device; rw = 1 asks it to transmit *)
HwAddrMatch(c, addr, rw) ==
  [c EXCEPT !.extBusy = TRUE, !.D = addr * 2 + rw,
            !.gEnded = IF c.gWr THEN c.gMatch ELSE @,
            !.gEndedBy = IF c.gWr THEN "rsta" ELSE @,
            !.gMatch = addr, !.gWr = (rw = 0), !.gSent = 0,
            !.S = (@ \ {"SRW"}) \cup {"IAAS", "IICIF", "TCF"}
                  \cup (IF rw = 1 THEN {"SRW"} ELSE {}),
            !.flight = IF rw = 1 THEN "none" ELSE "srx"]

(* the addressed slave has clocked in a byte from the master *)
HwSlaveRxDone(c, b) ==
  [c EXCEPT !.D = b, !.S = @ \cup {"IICIF", "TCF"}]

(* the addressed slave has clocked out a byte; ack is the master's answer *)
HwSlaveTxDone(c, ack) ==
  [c EXCEPT !.flight = "none",
            !.S = ((@ \ {"RXAK"}) \cup {"IICIF", "TCF"})
                  \cup (IF ack THEN {} ELSE {"RXAK"})]

(* the master on the bus sends STOP *)
HwStop(c) ==
  [c EXCEPT !.extBusy = FALSE, !.flight = "none",
            !.gEnded = IF c.gWr THEN c.gMatch ELSE @,
            !.gEndedBy = IF c.gWr THEN "stop" ELSE @, !.gWr = FALSE]

-----------------------------------------------------------------------------
(* Mainline: calls of the application and their steps *)

ThreadPrio == PrioStep * (MaxPrioLevel + 1)

NoCall ==
  [op |-> "none", blocking |-> FALSE, eff |-> 0, prio |-> ThreadPrio,
   idx |-> 0, expired |-> FALSE, late |-> FALSE, arg |-> 0, ret |-> -1]

InProgress(c) == c.currentStatus \in {"I2C_SENDING", "I2C_SEND_ADDR", "I2C_RECEIVING"}

(* The application is a sketch: setup() calls begin(), then the transmit    *)
(* buffer is filled, then transfers are started.  app is its position:      *)
(* "setup", "ready" (no transfer started yet), "first" (one started) and    *)
(* "over" (the one after it started, where the exploration ends).  A sketch *)
(* that begins as a slave goes to "serve": it registers callbacks and then  *)
(* is driven by the master on the bus.                                      *)
Prepare == pc = "idle" /\ app = "ready" /\ app' = app

StartXfer ==
  /\ pc = "idle"
  /\ app \in {"ready", "first"}
  /\ app' = IF app = "ready" THEN "first" ELSE "over"

Running == app # "over"

(* an interrupt of priority p can run now *)
CanPreempt(p) == Running /\ (pc = "idle" \/ (pc # "ret" /\ p < call.prio))

(* where a send routine goes when it returns: into finish_ for the blocking *)
(* calls, back to the caller otherwise                                      *)
AfterSend(cl) ==
  IF cl.blocking
  THEN /\ pc' = "fin_loop"
       /\ call' = [cl EXCEPT !.expired = FALSE]
  ELSE /\ pc' = "idle"
       /\ call' = NoCall

(* endTransmission / sendTransmission: sendTransmission_ up to the first byte *)
TxCall(blocking, sendStop, timeout, prio) ==
  /\ pc = "idle"
  /\ LET cl == [NoCall EXCEPT !.op = IF blocking THEN "endTransmission"
                                     ELSE "sendTransmission",
                              !.blocking = blocking,
                              !.eff = EffTimeout(i2c, timeout), !.prio = prio]
     IN IF i2c.txBufferLength = 0
        THEN /\ i2c' = i2c
             /\ AfterSend(cl)
             /\ UNCHANGED irqPriority
        ELSE /\ AcquireCanReturn(i2c, cl.eff)
             /\ \E freed \in BOOLEAN :
                  LET r == acquireBus_(NewTransfer(ClearS(i2c, {"IICIF", "ARBL"}), "tx"),
                                       prio, irqPriority, freed)
                  IN /\ irqPriority' = r.irq
                     /\ IF ~r.ok
                        THEN i2c' = r.c /\ AfterSend(cl)
                        ELSE IF r.c.opMode = "I2C_OP_MODE_IMM" \/ r.forceImm
                        THEN /\ i2c' = ImmTxStart(r.c, sendStop)
                             /\ pc' = "imm_tx"
                             /\ call' = cl
                        ELSE /\ i2c' = IsrTxStart(r.c, sendStop)
                             /\ AfterSend(cl)
  /\ UNCHANGED <<dmaIrqPriority, alt>>

StartTx(blocking, sendStop, timeout, prio) ==
  /\ StartXfer
  /\ TxCall(blocking, sendStop, timeout, prio)

(* Immediate transmit: head of the for loop *)
ImmTxLoop ==
  /\ pc = "imm_tx"
  /\ IF call.idx < i2c.txBufferLength /\ ~call.expired
     THEN /\ i2c' = WriteD(i2c, i2c.txBuffer[call.idx])
          /\ pc' = "imm_tx_wait"
          /\ call' = call
     ELSE /\ i2c' = ImmTxFinal(i2c, call.idx)
          /\ AfterSend(call)
  /\ UNCHANGED <<irqPriority, dmaIrqPriority, app, alt>>

(* Immediate transmit: i2c_wait_ has seen IICIF *)
ImmTxWait ==
  /\ pc = "imm_tx_wait"
  /\ "IICIF" \in i2c.S
  /\ LET r == ImmTxCheck(ClearS(i2c, {"IICIF"}), call.idx)
     IN IF r.brk
        THEN /\ i2c' = ImmTxFinal(r.c, call.idx)
             /\ AfterSend(call)
        ELSE /\ i2c' = r.c
             /\ pc' = "imm_tx"
             /\ call' = [call EXCEPT !.idx = @ + 1]
  /\ UNCHANGED <<irqPriority, dmaIrqPriority, app, alt>>

(* requestFrom / sendRequest: sendRequest_ up to the address byte *)
RxCall(blocking, len, sendStop, timeout, prio) ==
  /\ pc = "idle"
  /\ LET cl == [NoCall EXCEPT !.op = IF blocking THEN "requestFrom" ELSE "sendRequest",
                              !.blocking = blocking,
                              !.eff = EffTimeout(i2c, timeout), !.prio = prio]
     IN IF len = 0
        THEN /\ i2c' = i2c
             /\ pc' = IF blocking THEN "ret" ELSE "idle"
             /\ call' = IF blocking THEN [cl EXCEPT !.ret = 0] ELSE NoCall
             /\ UNCHANGED irqPriority
        ELSE IF len > I2C_RX_BUFFER_LENGTH
        THEN /\ i2c' = [i2c EXCEPT !.currentStatus = "I2C_BUF_OVF"]
             /\ AfterSend(cl)
             /\ UNCHANGED irqPriority
        ELSE /\ AcquireCanReturn(i2c, cl.eff)
             /\ \E freed \in BOOLEAN :
                  LET r == acquireBus_(NewTransfer(RequestSetup(i2c, len), "rx"),
                                       prio, irqPriority, freed)
                  IN /\ irqPriority' = r.irq
                     /\ IF ~r.ok
                        THEN i2c' = r.c /\ AfterSend(cl)
                        ELSE IF r.c.opMode = "I2C_OP_MODE_IMM" \/ r.forceImm
                        THEN /\ i2c' = ImmRxStart(r.c, CHOOSE a \in Targets : TRUE, sendStop)
                             /\ pc' = "imm_rx_addr"
                             /\ call' = cl
                        ELSE /\ i2c' = IsrRxStart(r.c, CHOOSE a \in Targets : TRUE, sendStop)
                             /\ AfterSend(cl)
  /\ UNCHANGED <<dmaIrqPriority, alt>>

StartRx(blocking, len, sendStop, timeout, prio) ==
  /\ StartXfer
  /\ RxCall(blocking, len, sendStop, timeout, prio)

(* endTransmission(sendStop, timeout) called from thread mode *)
MasterTx(sendStop, timeout) == StartTx(TRUE, sendStop, timeout, ThreadPrio)

(* requestFrom(addr, len, sendStop, timeout) called from thread mode; the *)
(* request that follows a transfer is for one byte                        *)
MasterRx(len, sendStop, timeout) ==
  /\ app = "first" => len = 1
  /\ StartRx(TRUE, len, sendStop, timeout, ThreadPrio)

(* requestFrom(addr, len, sendStop, timeout) called after an earlier *)
(* transfer has returned, and followed to its end: app goes to       *)
(* "second"                                                          *)
MasterRxNext(len, sendStop, timeout) ==
  /\ app = "first"
  /\ app' = "second"
  /\ RxCall(TRUE, len, sendStop, timeout, ThreadPrio)

(* Immediate receive: i2c_wait_ after the address byte *)
ImmRxAddrWait ==
  /\ pc = "imm_rx_addr"
  /\ "IICIF" \in i2c.S
  /\ LET a == ImmRxAddrCheck(ClearS(i2c, {"IICIF"}))
     IN /\ i2c' = a
        /\ IF ImmRxLoopCond(a)
           THEN pc' = "imm_rx_wait" /\ call' = call
           ELSE AfterSend(call)
  /\ UNCHANGED <<irqPriority, dmaIrqPriority, app, alt>>

(* Immediate receive: one turn of the receive loop *)
ImmRxWait ==
  /\ pc = "imm_rx_wait"
  /\ "IICIF" \in i2c.S
  /\ LET a == ImmRxByte(ClearS(i2c, {"IICIF"}), call.eff # 0 /\ call.expired)
     IN /\ i2c' = a
        /\ IF ImmRxLoopCond(a)
           THEN pc' = "imm_rx_wait" /\ call' = call
           ELSE AfterSend(call)
  /\ UNCHANGED <<irqPriority, dmaIrqPriority, app, alt>>


(* finish_: the wait loop is left *)
FinLoop ==
  /\ pc = "fin_loop"
  /\ done_(i2c) \/ (call.eff # 0 /\ call.expired)
  /\ pc' = "fin_dma"
  /\ UNCHANGED <<i2c, call, irqPriority, dmaIrqPriority, app, alt>>

(* finish_: "DMA mode and timeout" test *)
FinDma ==
  /\ pc = "fin_dma"
  /\ pc' = IF call.eff # 0 /\ call.expired /\ i2c.opMode = "I2C_OP_MODE_DMA"
              /\ i2c.activeDMA # "I2C_DMA_OFF"
           THEN "fin_dmawait" ELSE "fin_chk"
  /\ UNCHANGED <<i2c, call, irqPriority, dmaIrqPriority, app, alt>>

(* finish_: while(!done_(i2c)); currentStatus = I2C_TIMEOUT *)
FinDmaWait ==
  /\ pc = "fin_dmawait"
  /\ done_(i2c)
  /\ i2c' = [i2c EXCEPT !.currentStatus = "I2C_TIMEOUT"]
  /\ pc' = "fin_chk"
  /\ UNCHANGED <<call, irqPriority, dmaIrqPriority, app, alt>>

(* finish_: "check exit status", the test *)
FinCheck ==
  /\ pc = "fin_chk"
  /\ pc' = IF InProgress(i2c) THEN "fin_set" ELSE "fin_ret"
  /\ UNCHANGED <<i2c, call, irqPriority, dmaIrqPriority, app, alt>>

(* variant: the status is left as it is *)
FinSet_Keep ==
  /\ pc = "fin_set"
  /\ pc' = "fin_ret"
  /\ UNCHANGED <<i2c, call, irqPriority, dmaIrqPriority, app, alt>>

(* finish_: "check exit status", the assignment *)
FinSet ==
  /\ pc = "fin_set"
  /\ i2c' = [i2c EXCEPT !.currentStatus = "I2C_TIMEOUT"]
  /\ pc' = "fin_ret"
  /\ UNCHANGED <<call, irqPriority, dmaIrqPriority, app, alt>>

(* finish_ returns, and with it endTransmission / requestFrom_ / finish *)
FinReturn ==
  /\ pc = "fin_ret"
  /\ pc' = "ret"
  /\ LET ok == i2c.currentStatus = "I2C_WAITING"
     IN call' = [call EXCEPT !.ret =
                   CASE call.op = "endTransmission" -> getError(i2c)
                     [] call.op = "requestFrom" -> IF ok THEN i2c.rxBufferLength ELSE 0
                     [] OTHER -> IF ok THEN 1 ELSE 0]
  /\ UNCHANGED <<i2c, irqPriority, dmaIrqPriority, app, alt>>

(* the caller has the return value *)
Return ==
  /\ pc = "ret"
  /\ pc' = "idle"
  /\ call' = NoCall
  /\ UNCHANGED <<i2c, irqPriority, dmaIrqPriority, app, alt>>

(* elapsedMicros deltaT reaches the timeout of the routine in progress *)
Tick ==
  /\ pc \in {"imm_tx", "imm_tx_wait", "imm_rx_addr", "imm_rx_wait", "fin_loop", "fin_dma"}
  /\ call.eff # 0
  /\ ~call.expired
  /\ call' = [call EXCEPT !.expired = TRUE, !.late = TRUE]
  /\ UNCHANGED <<i2c, pc, irqPriority, dmaIrqPriority, app, alt>>

(* finish(timeout), called once after a transfer was started with         *)
(* sendTransmission / sendRequest; app goes to "wait"                     *)
Finish(timeout) ==
  /\ pc = "idle"
  /\ app = "first"
  /\ app' = "wait"
  /\ pc' = "fin_loop"
  /\ call' = [NoCall EXCEPT !.op = "finish", !.blocking = TRUE,
                            !.eff = EffTimeout(i2c, timeout)]
  /\ UNCHANGED <<i2c, irqPriority, dmaIrqPriority, alt>>

(* sendTransmission(sendStop) called from thread mode *)
SendTransmission(sendStop) == StartTx(FALSE, sendStop, 0, ThreadPrio)

(* sendRequest(addr, len, sendStop) called from thread mode *)
SendRequest(len, sendStop) == StartRx(FALSE, len, sendStop, 0, ThreadPrio)

(* setOpMode(opMode), called after a transfer was started; the exploration *)
(* ends with its return                                                    *)
SetOpMode(opMode, dmaAvail) ==
  /\ pc = "idle"
  /\ app = "first"
  /\ app' = "over"
  /\ i2c' = setOpMode_(i2c, opMode, dmaAvail)
  /\ pc' = "ret"
  /\ call' = [NoCall EXCEPT !.op = "setOpMode",
                            !.ret = IF BusBusy(i2c) THEN 0 ELSE 1]
  /\ UNCHANGED <<irqPriority, dmaIrqPriority, alt>>

(* begin(), the first call of the application *)
Begin(mode, opMode, dmaAvail) ==
  /\ pc = "idle"
  /\ app = "setup"
  /\ app' = IF mode = "I2C_MASTER" THEN "ready" ELSE "serve"
  /\ i2c' = begin_(i2c, mode, CHOOSE a \in Targets : TRUE, 0, opMode, dmaAvail)
  /\ UNCHANGED <<pc, call, irqPriority, dmaIrqPriority, alt>>

(* begin(I2C_SLAVE, address1, address2, ...): a slave answering to a range *)
BeginRange(address1, address2) ==
  /\ pc = "idle"
  /\ app = "setup"
  /\ address1 # address2
  /\ app' = "serve"
  /\ i2c' = begin_(i2c, "I2C_SLAVE", address1, address2, "I2C_OP_MODE_ISR", FALSE)
  /\ UNCHANGED <<pc, call, irqPriority, dmaIrqPriority, alt>>

(* onReceive(function) / onRequest(function) *)
SetCallbacks(rcv, req) ==
  /\ pc = "idle"
  /\ app = "serve"
  /\ app' = app
  /\ i2c' = [i2c EXCEPT !.user_onReceive = rcv, !.user_onRequest = req]
  /\ UNCHANGED <<pc, call, irqPriority, dmaIrqPriority, alt>>

BeginTransmission(address) ==
  /\ Prepare
  /\ i2c' = beginTransmission(i2c, address)
  /\ UNCHANGED <<pc, call, irqPriority, dmaIrqPriority, alt>>

Write(quantity) ==
  /\ Prepare
  /\ i2c.txBufferLength >= 1
  /\ i2c' = write(i2c, TxData, quantity)
  /\ UNCHANGED <<pc, call, irqPriority, dmaIrqPriority, alt>>

(* beginTransmission(address) called after a transfer was started; the *)
(* exploration ends with it                                            *)
BeginNext(address) ==
  /\ pc = "idle"
  /\ app = "first"
  /\ app' = "over"
  /\ i2c' = beginTransmission(i2c, address)
  /\ UNCHANGED <<pc, call, irqPriority, dmaIrqPriority, alt>>

(* write(data, quantity) with its return value *)
WriteArray(quantity) ==
  /\ Prepare
  /\ i2c' = write(i2c, TxData, quantity)
  /\ pc' = "ret"
  /\ call' = [NoCall EXCEPT !.op = "write", !.arg = quantity,
                            !.ret = writeCount(i2c, quantity)]
  /\ UNCHANGED <<irqPriority, dmaIrqPriority, alt>>

(* write(data) with its return value *)
WriteOne(data) ==
  /\ Prepare
  /\ i2c' = WriteByte(i2c, data)
  /\ pc' = "ret"
  /\ call' = [NoCall EXCEPT !.op = "writeByte", !.arg = data,
                            !.ret = WriteByteCount(i2c)]
  /\ UNCHANGED <<irqPriority, dmaIrqPriority, alt>>

(* read() / readByte(), called between transfers or while a slave serves *)
ReadByte ==
  /\ pc = "idle"
  /\ app \in {"first", "serve"}
  /\ app' = app
  /\ i2c' = read_(i2c)
  /\ UNCHANGED <<pc, call, irqPriority, dmaIrqPriority, alt>>

-----------------------------------------------------------------------------
(* Interrupts and bus events *)

(* the I2C interrupt: i2c0_isr *)
I2cIsr(fill) ==
  /\ "IICIF" \in i2c.S
  /\ "IICIE" \in i2c.C1
  /\ "DMAEN" \notin i2c.C1
  /\ CanPreempt(irqPriority)
  /\ i2c' = i2c_isr_handler(i2c, fill)
  /\ UNCHANGED <<pc, call, irqPriority, dmaIrqPriority, app, alt>>

(* the interrupt of the DMA channel, attached to i2c0_isr *)
DmaIsr ==
  /\ i2c.dmaInt
  /\ CanPreempt(dmaIrqPriority)
  /\ i2c' = i2c_isr_handler(i2c, 0)
  /\ UNCHANGED <<pc, call, irqPriority, dmaIrqPriority, app, alt>>

(* the pin interrupt on the rising edge of SDA *)
SdaEdge ==
  /\ Running
  /\ i2c.sdaIsr
  /\ pc # "ret"
  /\ i2c' = sda_rising_isr_handler(i2c)
  /\ UNCHANGED <<pc, call, irqPriority, dmaIrqPriority, app, alt>>

HwTxByte(r) ==
  /\ Running
  /\ i2c.flight = "tx"
  /\ "IICIF" \notin i2c.S
  /\ ~i2c.dmaInt
  /\ r = "ARBL" => "DMAEN" \notin i2c.C1
  /\ i2c' = HwTxDone(i2c, r)
  /\ UNCHANGED <<pc, call, irqPriority, dmaIrqPriority, app, alt>>

HwRxByte ==
  /\ Running
  /\ i2c.flight = "rx"
  /\ "IICIF" \notin i2c.S
  /\ ~i2c.dmaInt
  /\ i2c' = HwRxDone(i2c)
  /\ UNCHANGED <<pc, call, irqPriority, dmaIrqPriority, app, alt>>

DmaError ==
  /\ Running
  /\ i2c.dmaEn
  /\ i2c.activeDMA = "I2C_DMA_BULK"
  /\ i2c' = HwDmaError(i2c)
  /\ UNCHANGED <<pc, call, irqPriority, dmaIrqPriority, app, alt>>

(* another master takes the bus *)
BusStart ==
  /\ app = "ready"
  /\ pc = "idle"
  /\ ~BusBusy(i2c)
  /\ i2c' = [i2c EXCEPT !.extBusy = TRUE]
  /\ UNCHANGED <<pc, call, irqPriority, dmaIrqPriority, app, alt>>

(* the other master sends STOP; a slave with a byte interrupt pending *)
(* holds the clock line, and no STOP can be sent until it is served,  *)
(* nor while the slave is clocking out a byte                         *)
BusStop ==
  /\ Running
  /\ pc = "idle"
  /\ i2c.extBusy
  /\ "MST" \notin i2c.C1
  /\ i2c.currentMode = "I2C_SLAVE" => "IICIF" \notin i2c.S /\ i2c.flight # "stx"
  /\ i2c' = HwStop(i2c)
  /\ UNCHANGED <<pc, call, irqPriority, dmaIrqPriority, app, alt>>

(* the address compare of the peripheral: A1, or with a range set any *)
(* address above A1 up to RA                                          *)
AddrMatches(c, addr) ==
  /\ c.A1 # 0
  /\ \/ addr * 2 = c.A1
     \/ c.RA # 0 /\ c.A1 < addr * 2 /\ addr * 2 <= c.RA

AddrMatch(addr, rw) ==
  /\ Running
  /\ AddrMatches(i2c, addr)
  /\ "IICEN" \in i2c.C1
  /\ "MST" \notin i2c.C1
  /\ "IICIF" \notin i2c.S
  /\ i2c' = HwAddrMatch(i2c, addr, rw)
  /\ UNCHANGED <<pc, call, irqPriority, dmaIrqPriority, app, alt>>

SlaveByteIn(b) ==
  /\ Running
  /\ i2c.flight = "srx"
  /\ i2c.extBusy
  /\ "IICIF" \notin i2c.S
  /\ i2c' = HwSlaveRxDone(i2c, b)
  /\ UNCHANGED <<pc, call, irqPriority, dmaIrqPriority, app, alt>>

SlaveByteOut(ack) ==
  /\ Running
  /\ i2c.flight = "stx"
  /\ "IICIF" \notin i2c.S
  /\ i2c' = HwSlaveTxDone(i2c, ack)
  /\ UNCHANGED <<pc, call, irqPriority, dmaIrqPriority, app, alt>>

-----------------------------------------------------------------------------
(* The specification *)

Init ==
  /\ i2c = i2cData
  /\ pc = "idle"
  /\ call = NoCall
  /\ irqPriority = DefaultPrio
  /\ dmaIrqPriority = DefaultPrio
  /\ app = "setup"
  /\ alt = i2cData

(* a master whose calls are made from thread mode *)
Next ==
  \/ \E o \in i2c_op_mode, d \in BOOLEAN : Begin("I2C_MASTER", o, d)
  \/ \E a \in Targets : BeginTransmission(a)
  \/ \E q \in 1..MaxTxLen : Write(q)
  \/ \E s \in i2c_stop, t \in Timeouts : MasterTx(s, t)
  \/ \E n \in ReqLens, s \in i2c_stop, t \in Timeouts : MasterRx(n, s, t)
  \/ ImmTxLoop
  \/ ImmTxWait
  \/ ImmRxAddrWait
  \/ ImmRxWait
  \/ FinLoop
  \/ FinDma
  \/ FinDmaWait
  \/ FinCheck
  \/ FinSet
  \/ FinReturn
  \/ Return
  \/ Tick
  \/ I2cIsr(0)
  \/ DmaIsr
  \/ \E r \in {"ACK", "NAK", "ARBL"} : HwTxByte(r)
  \/ HwRxByte
  \/ DmaError
  \/ BusStart
  \/ BusStop

Spec == Init /\ [][Next]_vars

(* the same master, or a slave served by its interrupt handlers *)
NextRole ==
  \/ Next
  \/ Begin("I2C_SLAVE", "I2C_OP_MODE_ISR", FALSE)
  \/ \E rcv \in BOOLEAN, req \in BOOLEAN : SetCallbacks(rcv, req)
  \/ \E a \in Targets, rw \in {0, 1} : AddrMatch(a, rw)
  \/ \E b \in DataBytes : SlaveByteIn(b)
  \/ \E ack \in BOOLEAN : SlaveByteOut(ack)
  \/ \E fill \in Fills : I2cIsr(fill)
  \/ SdaEdge

SpecRole == Init /\ [][NextRole]_vars

(* a slave that answers to a range of addresses, with both callbacks set *)
NextSlave ==
  \/ \E a1 \in RangeAddrs, a2 \in RangeAddrs : BeginRange(a1, a2)
  \/ SetCallbacks(TRUE, TRUE)
  \/ \E a \in RangeAddrs, rw \in {0, 1} : AddrMatch(a, rw)
  \/ \E b \in DataBytes : SlaveByteIn(b)
  \/ \E ack \in BOOLEAN : SlaveByteOut(ack)
  \/ \E fill \in Fills : I2cIsr(fill)
  \/ SdaEdge
  \/ BusStop

SpecSlave == Init /\ [][NextSlave]_vars

(* a slave that is read by the master on the bus, with the on-request *)
(* callback set or not, writing no byte, one byte or a full buffer    *)
SlaveFills == {0, 1, I2C_TX_BUFFER_LENGTH}

NextAnswer ==
  \/ Begin("I2C_SLAVE", "I2C_OP_MODE_ISR", FALSE)
  \/ \E req \in BOOLEAN : SetCallbacks(FALSE, req)
  \/ \E a \in Targets : AddrMatch(a, 1)
  \/ \E ack \in BOOLEAN : SlaveByteOut(ack)
  \/ \E fill \in SlaveFills : I2cIsr(fill)
  \/ BusStop

SpecAnswer == Init /\ [][NextAnswer]_vars

(* a master that receives, or a slave that is written to, and an *)
(* application that reads what was received                      *)
NextRead ==
  \/ \E o \in i2c_op_mode : Begin("I2C_MASTER", o, TRUE)
  \/ Begin("I2C_SLAVE", "I2C_OP_MODE_ISR", FALSE)
  \/ \E rcv \in BOOLEAN : SetCallbacks(rcv, FALSE)
  \/ \E n \in ReqLens, s \in i2c_stop, t \in Timeouts : MasterRx(n, s, t)
  \/ ReadByte
  \/ ImmRxAddrWait
  \/ ImmRxWait
  \/ FinLoop
  \/ FinDma
  \/ FinDmaWait
  \/ FinCheck
  \/ FinSet
  \/ FinReturn
  \/ Return
  \/ Tick
  \/ I2cIsr(0)
  \/ DmaIsr
  \/ \E r \in {"ACK", "NAK", "ARBL"} : HwTxByte(r)
  \/ HwRxByte
  \/ DmaError
  \/ \E a \in Targets : AddrMatch(a, 0)
  \/ \E b \in DataBytes : SlaveByteIn(b)
  \/ SdaEdge
  \/ BusStop

SpecRead == Init /\ [][NextRead]_vars

(* a master that receives with a timeout, and then receives again *)
NextRepeat ==
  \/ \E o \in i2c_op_mode : Begin("I2C_MASTER", o, TRUE)
  \/ \E n \in {1, 2, DmaMinLen}, s \in i2c_stop, t \in Timeouts \ {0} : MasterRx(n, s, t)
  \/ \E n \in NextLens, s \in i2c_stop, t \in Timeouts \ {0} : MasterRxNext(n, s, t)
  \/ ImmRxAddrWait
  \/ ImmRxWait
  \/ FinLoop
  \/ FinDma
  \/ FinCheck
  \/ FinSet
  \/ FinReturn
  \/ Return
  \/ Tick
  \/ FinDmaWait
  \/ I2cIsr(0)
  \/ DmaIsr
  \/ \E r \in {"ACK", "NAK", "ARBL"} : HwTxByte(r)
  \/ HwRxByte
  \/ DmaError

SpecRepeat == Init /\ [][NextRepeat]_vars

(* an application filling the transmit buffer *)
NextBuf ==
  \/ \E o \in i2c_op_mode : Begin("I2C_MASTER", o, TRUE)
  \/ \E a \in Targets : BeginTransmission(a)
  \/ \E q \in 0..(MaxTxLen + 1) : WriteArray(q)
  \/ \E b \in WriteBytes : WriteOne(b)
  \/ Return

SpecBuf == Init /\ [][NextBuf]_vars

(* a master that starts its transfers with the non-blocking calls and     *)
(* waits for them with finish()                                           *)
NextAsync ==
  \/ \E o \in i2c_op_mode, d \in BOOLEAN : Begin("I2C_MASTER", o, d)
  \/ \E a \in Targets : BeginTransmission(a)
  \/ \E q \in 1..MaxTxLen : Write(q)
  \/ \E s \in i2c_stop : SendTransmission(s)
  \/ \E n \in ReqLens, s \in i2c_stop : SendRequest(n, s)
  \/ \E t \in Timeouts : Finish(t)
  \/ \E a \in Targets : BeginNext(a)
  \/ \E o \in i2c_op_mode, d \in BOOLEAN : SetOpMode(o, d)
  \/ ImmTxLoop
  \/ ImmTxWait
  \/ ImmRxAddrWait
  \/ ImmRxWait
  \/ FinLoop
  \/ FinDma
  \/ FinDmaWait
  \/ FinCheck
  \/ FinSet
  \/ FinReturn
  \/ Return
  \/ Tick
  \/ I2cIsr(0)
  \/ DmaIsr
  \/ \E r \in {"ACK", "NAK", "ARBL"} : HwTxByte(r)
  \/ HwRxByte
  \/ DmaError
  \/ BusStart
  \/ BusStop

SpecAsync == Init /\ [][NextAsync]_vars

-----------------------------------------------------------------------------
(* One blocking call, made from any execution priority *)

(* endTransmission(sendStop, timeout) called at priority prio *)
CallerTx(sendStop, timeout, prio) ==
  /\ app = "ready"
  /\ StartTx(TRUE, sendStop, timeout, prio)

(* requestFrom(addr, len, sendStop, timeout) called at priority prio *)
CallerRx(len, sendStop, timeout, prio) ==
  /\ app = "ready"
  /\ StartRx(TRUE, len, sendStop, timeout, prio)

(* the steps of the routine that is executing *)
MainStep ==
  \/ ImmTxLoop
  \/ ImmTxWait
  \/ ImmRxAddrWait
  \/ ImmRxWait
  \/ FinLoop
  \/ FinDma
  \/ FinDmaWait
  \/ FinCheck
  \/ FinSet
  \/ FinReturn

(* a master in ISR or DMA mode on a bus that no other master uses; the  *)
(* peripheral signals every byte                                        *)
NextLive ==
  \/ \E o \in {"I2C_OP_MODE_ISR", "I2C_OP_MODE_DMA"} : Begin("I2C_MASTER", o, TRUE)
  \/ \E a \in Targets : BeginTransmission(a)
  \/ \E q \in {1, DmaMinLen - 1} : Write(q)
  \/ \E s \in i2c_stop, t \in Timeouts, p \in CallerPrios : CallerTx(s, t, p)
  \/ \E n \in {1, DmaMinLen}, s \in i2c_stop, t \in Timeouts, p \in CallerPrios :
        CallerRx(n, s, t, p)
  \/ MainStep
  \/ Return
  \/ Tick
  \/ I2cIsr(0)
  \/ DmaIsr
  \/ \E r \in {"ACK", "NAK", "ARBL"} : HwTxByte(r)
  \/ HwRxByte

(* the processor executes, time passes, a pending interrupt that can    *)
(* preempt is taken, and a byte on the wire completes                   *)
FairLive ==
  /\ WF_vars(MainStep)
  /\ WF_vars(Return)
  /\ WF_vars(Tick)
  /\ WF_vars(I2cIsr(0))
  /\ WF_vars(DmaIsr)
  /\ WF_vars(\E r \in {"ACK", "NAK", "ARBL"} : HwTxByte(r))
  /\ WF_vars(HwRxByte)

SpecLive == Init /\ [][NextLive]_vars /\ FairLive

(* the same master and a slave that holds the bus: no byte ever completes *)
NextNoResp ==
  \/ \E o \in i2c_op_mode : Begin("I2C_MASTER", o, TRUE)
  \/ \E n \in {1, 2, DmaMinLen}, s \in i2c_stop, t \in Timeouts, p \in CallerPrios :
        CallerRx(n, s, t, p)
  \/ FinLoop
  \/ FinDma
  \/ FinCheck
  \/ FinSet
  \/ FinReturn
  \/ Return
  \/ Tick

FairNoResp ==
  /\ WF_vars(FinLoop \/ FinDma \/ FinCheck \/ FinSet \/ FinReturn)
  /\ WF_vars(Return)
  /\ WF_vars(Tick)

SpecNoResp == Init /\ [][NextNoResp]_vars /\ FairNoResp

(* the steps of a blocking call in Immediate mode: the send routine, and *)
(* finish_, which finds the transfer ended                               *)
ImmStep ==
  \/ ImmTxLoop
  \/ ImmTxWait
  \/ ImmRxAddrWait
  \/ ImmRxWait
  \/ FinLoop
  \/ FinDma
  \/ FinCheck
  \/ FinReturn

(* a master in Immediate mode whose calls carry a timeout; the peripheral *)
(* may leave a byte unfinished for ever, so nothing is assumed of the     *)
(* byte events                                                            *)
NextStall ==
  \/ Begin("I2C_MASTER", "I2C_OP_MODE_IMM", FALSE)
  \/ \E a \in Targets : BeginTransmission(a)
  \/ \E q \in 1..2 : Write(q)
  \/ \E s \in i2c_stop, t \in Timeouts \ {0} : MasterTx(s, t)
  \/ \E n \in {1, 2}, s \in i2c_stop, t \in Timeouts \ {0} : MasterRx(n, s, t)
  \/ ImmStep
  \/ Return
  \/ Tick
  \/ \E r \in {"ACK", "NAK", "ARBL"} : HwTxByte(r)
  \/ HwRxByte

FairStall ==
  /\ WF_vars(ImmStep)
  /\ WF_vars(Return)
  /\ WF_vars(Tick)

SpecStall == Init /\ [][NextStall]_vars /\ FairStall

(* a master that starts a transfer with a non-blocking call and waits for *)
(* it with finish(timeout); interrupts and byte events may come or not    *)
NextFinish ==
  \/ \E o \in i2c_op_mode : Begin("I2C_MASTER", o, TRUE)
  \/ \E a \in Targets : BeginTransmission(a)
  \/ \E q \in {1, DmaMinLen - 1} : Write(q)
  \/ \E s \in i2c_stop : SendTransmission(s)
  \/ \E n \in {1, DmaMinLen}, s \in i2c_stop : SendRequest(n, s)
  \/ \E t \in Timeouts \ {0} : Finish(t)
  \/ MainStep
  \/ Return
  \/ Tick
  \/ I2cIsr(0)
  \/ DmaIsr
  \/ \E r \in {"ACK", "NAK", "ARBL"} : HwTxByte(r)
  \/ HwRxByte

FairFinish ==
  /\ WF_vars(MainStep)
  /\ WF_vars(Return)
  /\ WF_vars(Tick)

SpecFinish == Init /\ [][NextFinish]_vars /\ FairFinish

-----------------------------------------------------------------------------
(* Two strategies side by side.  i2c is a master in I2C_OP_MODE_ISR and alt *)
(* the same master in another mode; both make the same blocking calls,     *)
(* without timeout, on a free bus, and the bus answers both in the same    *)
(* way.  A call runs to its return in one step.                            *)

(* what the bus answers to the bytes of a transmit, by place in the buffer: *)
(* every byte acknowledged, or all but one                                 *)
Scripts(answers) ==
  {[k \in 0..(MaxTxLen - 1) |-> IF k = p THEN r ELSE "ACK"] :
     p \in 0..(MaxTxLen - 1), r \in answers}

RECURSIVE Settle(_, _)
(* the transfer started in ISR or DMA mode goes on to its end: interrupts  *)
(* are served as they are raised, bytes complete as they are clocked       *)
Settle(c, script) ==
  IF c.dmaInt \/ ("IICIF" \in c.S /\ "IICIE" \in c.C1 /\ "DMAEN" \notin c.C1)
  THEN Settle(i2c_isr_handler(c, 0), script)
  ELSE IF c.flight = "tx" THEN Settle(HwTxDone(c, script[c.gWire - 1]), script)
  ELSE IF c.flight = "rx" THEN Settle(HwRxDone(c), script)
  ELSE c

RECURSIVE ImmTxRun(_, _, _)
(* sendTransmission_, Immediate branch: the for loop from byte idx on *)
ImmTxRun(c, idx, script) ==
  IF idx < c.txBufferLength
  THEN LET a == HwTxDone(WriteD(c, c.txBuffer[idx]), script[idx])
           r == ImmTxCheck(ClearS(a, {"IICIF"}), idx)
       IN IF r.brk THEN ImmTxFinal(r.c, idx) ELSE ImmTxRun(r.c, idx + 1, script)
  ELSE ImmTxFinal(c, idx)

RECURSIVE ImmRxRun(_)
(* sendRequest_, Immediate branch: the receive loop *)
ImmRxRun(c) ==
  IF ImmRxLoopCond(c)
  THEN ImmRxRun(ImmRxByte(ClearS(HwRxDone(c), {"IICIF"}), FALSE))
  ELSE c

(* endTransmission(sendStop) from thread mode, to its return *)
TransmitRun(c, sendStop, script) ==
  IF c.txBufferLength = 0 THEN c
  ELSE LET r == acquireBus_(NewTransfer(ClearS(c, {"IICIF", "ARBL"}), "tx"),
                            ThreadPrio, DefaultPrio, TRUE)
       IN IF ~r.ok THEN r.c
          ELSE IF r.c.opMode = "I2C_OP_MODE_IMM" \/ r.forceImm
          THEN ImmTxRun(ImmTxStart(r.c, sendStop), 0, script)
          ELSE Settle(IsrTxStart(r.c, sendStop), script)

(* requestFrom(addr, len, sendStop) from thread mode, to its return; the *)
(* slave acknowledges its address                                        *)
ReceiveRun(c, addr, len, sendStop) ==
  LET r == acquireBus_(NewTransfer(RequestSetup(c, len), "rx"),
                       ThreadPrio, DefaultPrio, TRUE)
      script == [k \in 0..(MaxTxLen - 1) |-> "ACK"]
  IN IF ~r.ok THEN r.c
     ELSE IF r.c.opMode = "I2C_OP_MODE_IMM" \/ r.forceImm
     THEN LET a == HwTxDone(ImmRxStart(r.c, addr, sendStop), "ACK")
          IN ImmRxRun(ImmRxAddrCheck(ClearS(a, {"IICIF"})))
     ELSE Settle(IsrRxStart(r.c, addr, sendStop), script)

(* begin() in both contexts *)
EqBegin(opMode) ==
  /\ app = "setup"
  /\ app' = "ready"
  /\ i2c' = begin_(i2c, "I2C_MASTER", 0, 0, "I2C_OP_MODE_ISR", TRUE)
  /\ alt' = begin_(alt, "I2C_MASTER", 0, 0, opMode, TRUE)
  /\ UNCHANGED <<pc, call, irqPriority, dmaIrqPriority>>

(* beginTransmission(address) and write(data, quantity) in both contexts *)
EqPrepare(address, quantity) ==
  /\ app = "ready"
  /\ i2c.txBufferLength = 0
  /\ app' = app
  /\ i2c' = write(beginTransmission(i2c, address), TxData, quantity)
  /\ alt' = write(beginTransmission(alt, address), TxData, quantity)
  /\ UNCHANGED <<pc, call, irqPriority, dmaIrqPriority>>

(* endTransmission(sendStop) in both contexts; arbitration is lost only *)
(* where the interrupt handler is the one to see it                     *)
EqTransmit(sendStop, script) ==
  /\ app = "ready"
  /\ alt.opMode = "I2C_OP_MODE_DMA" => script \in Scripts({"ACK", "NAK"})
  /\ i2c.txBufferLength >= 1
  /\ app' = "first"
  /\ i2c' = TransmitRun(i2c, sendStop, script)
  /\ alt' = TransmitRun(alt, sendStop, script)
  /\ UNCHANGED <<pc, call, irqPriority, dmaIrqPriority>>

(* requestFrom(address, len, sendStop) in both contexts *)
EqReceive(address, len, sendStop) ==
  /\ app = "first"
  /\ app' = "over"
  /\ i2c' = ReceiveRun(i2c, address, len, sendStop)
  /\ alt' = ReceiveRun(alt, address, len, sendStop)
  /\ UNCHANGED <<pc, call, irqPriority, dmaIrqPriority>>

NextEq ==
  \/ \E o \in {"I2C_OP_MODE_IMM", "I2C_OP_MODE_DMA"} : EqBegin(o)
  \/ \E a \in Targets, q \in 1..(MaxTxLen - 1) : EqPrepare(a, q)
  \/ \E s \in i2c_stop, sc \in Scripts({"ACK", "NAK", "ARBL"}) : EqTransmit(s, sc)
  \/ \E a \in Targets, n \in 1..MaxRxLen, s \in i2c_stop : EqReceive(a, n, s)

SpecEq == Init /\ [][NextEq]_vars

-----------------------------------------------------------------------------
(* Properties of master transfers (specification Spec) *)

(* the transfer whose history is recorded is a transmit that has returned *)
TxReturned == pc = "ret" /\ call.op = "endTransmission" /\ i2c.gKind = "tx"

(* a transmit in which every byte was sent and acknowledged has completed *)
TxSucceeded ==
  /\ i2c.gKind = "tx"
  /\ i2c.currentStatus = "I2C_WAITING"
  /\ i2c.txBufferLength >= 1
  /\ i2c.gWire = i2c.txBufferLength
  /\ i2c.gNak = -1
  /\ i2c.flight = "none"
  /\ pc \in {"ret", "idle"}

(* C1: a transmit without timeout whose address byte was not acknowledged *)
(* returns with status I2C_ADDR_NAK, in every operating mode              *)
C1_AddrNakStatus ==
  (TxReturned /\ call.eff = 0 /\ i2c.gNak = 0)
    => i2c.currentStatus = "I2C_ADDR_NAK"

(* C2: a transmit without timeout in which a byte was not acknowledged    *)
(* returns with a STOP sent and without bus mastership, whatever the stop *)
(* parameter was                                                          *)
C2_StopOnNak ==
  (TxReturned /\ call.eff = 0 /\ i2c.gNak # -1)
    => (i2c.gStop /\ "MST" \notin i2c.C1)

(* C3: after a transmit that succeeded with I2C_NOSTOP the controller is   *)
(* still master and has sent no STOP, and the transfer started next takes *)
(* the repeated-START branch of acquireBus_ and is under way              *)
C3_RepeatedStart ==
  /\ [](TxSucceeded /\ i2c.currentStop = "I2C_NOSTOP"
          => "MST" \in i2c.C1 /\ ~i2c.gStop)
  /\ [][(TxSucceeded /\ i2c.currentStop = "I2C_NOSTOP" /\ app = "first" /\ app' = "over")
          => (i2c'.gAcq = "rsta" /\ InProgress(i2c'))]_vars

C3_Witness ==
  /\ app = "over"
  /\ i2c.gAcq = "rsta"
  /\ i2c.gKind = "rx"
  /\ i2c.currentStatus = "I2C_SEND_ADDR"
  /\ i2c.gWire = 1

WireCode(status, writeError) ==
  CASE status = "I2C_BUF_OVF" -> 1
    [] status = "I2C_ADDR_NAK" -> 2
    [] status = "I2C_DATA_NAK" -> 3
    [] status \in {"I2C_TIMEOUT", "I2C_ARB_LOST"} -> 4
    [] status = "I2C_WAITING" /\ writeError -> 1
    [] status = "I2C_WAITING" /\ ~writeError -> 0

-----------------------------------------------------------------------------
(* Properties of both roles (specification SpecRole) *)

(* a step in which the application starts no transfer *)
NoNewTransfer == app' = app

(* C4 as stated, for both roles: once done() is true it stays true over   *)
(* every step in which the application starts no transfer                 *)
C4_DoneStable ==
  [][(done_(i2c) /\ NoNewTransfer) => done_(i2c')]_vars

(* C4 for the master role: once done() is true it stays true over every   *)
(* step of the interrupt handlers, of the DMA channel and of finish_ in   *)
(* which the application starts no transfer                               *)
C4_DoneStableMaster ==
  [][(i2c.currentMode = "I2C_MASTER" /\ done_(i2c) /\ NoNewTransfer) => done_(i2c')]_vars

(* the interrupt handler has run on a transmit that finish_ had timed out *)
C4_Witness ==
  /\ i2c.currentMode = "I2C_MASTER"
  /\ i2c.opMode = "I2C_OP_MODE_ISR"
  /\ i2c.gKind = "tx"
  /\ i2c.currentStatus = "I2C_TIMEOUT"
  /\ i2c.currentStop = "I2C_NOSTOP"
  /\ i2c.gWire = i2c.txBufferIndex + 1
  /\ i2c.flight = "none"
  /\ "IICIF" \notin i2c.S
  /\ "MST" \in i2c.C1
  /\ pc = "idle"

-----------------------------------------------------------------------------
(* Properties of the strategies side by side (specification SpecEq) *)

(* what C6 compares: the buffers, the count of received bytes, the status *)
RoundTripView(c) ==
  [txBuffer |-> c.txBuffer, txBufferLength |-> c.txBufferLength,
   rxBuffer |-> c.rxBuffer, rxBufferLength |-> c.rxBufferLength,
   currentStatus |-> c.currentStatus]

(* C6: with the DMA threshold met, after the transmit and after the receive *)
(* that follows it the context in I2C_OP_MODE_DMA has the same buffers,     *)
(* rxBufferLength and status as the context in I2C_OP_MODE_ISR              *)
C6_DmaEquivalent ==
  (/\ alt.opMode = "I2C_OP_MODE_DMA"
   /\ app \in {"first", "over"}
   /\ i2c.txBufferLength >= DmaMinLen
   /\ app = "over" => i2c.reqCount >= DmaMinLen)
    => RoundTripView(alt) = RoundTripView(i2c)

(* what C7 compares: status, getError() and what became of the bus *)
TransmitView(c) ==
  [currentStatus |-> c.currentStatus, error |-> getError(c),
   master |-> "MST" \in c.C1, stop |-> c.gStop]

(* C7: after a transmit answered in the same way the context in            *)
(* I2C_OP_MODE_IMM has the same status, getError() and bus ownership as    *)
(* the context in I2C_OP_MODE_ISR                                          *)
C7_ImmEquivalent ==
  (alt.opMode = "I2C_OP_MODE_IMM" /\ app = "first")
    => TransmitView(alt) = TransmitView(i2c)

-----------------------------------------------------------------------------
(* Properties of one blocking call (specifications SpecLive, SpecNoResp) *)

(* a blocking transfer call is executing *)
InBlockingCall ==
  /\ call.op \in {"endTransmission", "requestFrom"}
  /\ pc \notin {"idle", "ret"}

(* C8: in ISR or DMA mode a blocking transmit or receive, called at any *)
(* execution priority, returns                                          *)
C8_BlockingReturns ==
  (InBlockingCall /\ i2c.opMode \in {"I2C_OP_MODE_ISR", "I2C_OP_MODE_DMA"})
    ~> (pc = "ret")

(* C9: a blocking requestFrom with a timeout, for a length that the     *)
(* buffer takes, returns 0 with status I2C_TIMEOUT when no byte ever    *)
(* completes                                                            *)
C9_NoResponseTimeout ==
  (InBlockingCall /\ call.op = "requestFrom" /\ call.eff # 0)
    ~> (pc = "ret" /\ call.ret = 0 /\ i2c.currentStatus = "I2C_TIMEOUT")

-----------------------------------------------------------------------------
(* Properties of complete transfers (specification Spec) *)

(* the bus was acquired, every byte was acknowledged, arbitration was not *)
(* lost and no timeout of the call elapsed                                *)
NoFault ==
  /\ i2c.gAcq \notin {"none", "fail"}
  /\ i2c.gNak = -1
  /\ ~i2c.gArbl
  /\ ~call.late

(* a step that writes a byte of a transmit to the data register: the byte *)
(* is the one at the place given by the count of bytes written before     *)
TxInOrder ==
  (/\ i2c'.gKind = "tx"
   /\ \/ i2c.gKind = "tx" /\ i2c'.gWire = i2c.gWire + 1
      \/ app' # app /\ i2c'.gWire = 1)
    => i2c'.D = i2c'.txBuffer[i2c'.gWire - 1]

(* C11 as stated: a transmit without fault writes the buffer to the data *)
(* register in index order, each byte once, ends with I2C_WAITING, and   *)
(* endTransmission returns 0                                             *)
C11_TxCompletes ==
  /\ [][TxInOrder]_vars
  /\ [](TxReturned /\ NoFault
          => /\ i2c.currentStatus = "I2C_WAITING"
             /\ i2c.gWire = i2c.txBufferLength
             /\ call.ret = 0)

(* C11 with the write-error flag taken into account: endTransmission    *)
(* returns 0 when no write error is flagged and 1 when one is            *)
C11_TxCompletesNoWriteError ==
  /\ [][TxInOrder]_vars
  /\ [](TxReturned /\ NoFault
          => /\ i2c.currentStatus = "I2C_WAITING"
             /\ i2c.gWire = i2c.txBufferLength
             /\ call.ret = IF i2c.writeError THEN 1 ELSE 0)

C11_Witness ==
  /\ TxReturned
  /\ NoFault
  /\ i2c.opMode = "I2C_OP_MODE_DMA"
  /\ i2c.txBufferLength = DmaMinLen
  /\ i2c.gWire = DmaMinLen
  /\ ~i2c.writeError
  /\ call.ret = 0

(* a blocking receive has returned *)
RxReturned == pc = "ret" /\ call.op = "requestFrom"

(* the receive that has returned failed: bus not acquired, address not   *)
(* acknowledged, arbitration lost, or timed out with bytes outstanding   *)
RxFailed ==
  \/ i2c.gAcq = "fail"
  \/ i2c.gNak = 0
  \/ i2c.gArbl
  \/ call.late /\ Len(i2c.gAcks) < i2c.reqCount

(* C12: a blocking receive without fault ends with I2C_WAITING, with     *)
(* rxBufferLength = reqCount, read cursor 0 and the bytes in the order   *)
(* they arrived, and requestFrom returns reqCount; a receive that failed *)
(* and a request for no bytes return 0                                   *)
C12_RxCompletes ==
  /\ [](RxReturned /\ NoFault
          => /\ i2c.currentStatus = "I2C_WAITING"
             /\ i2c.rxBufferLength = i2c.reqCount
             /\ i2c.rxBufferIndex = 0
             /\ \A k \in 0..(i2c.reqCount - 1) : i2c.rxBuffer[k] = SlaveData(k)
             /\ call.ret = i2c.reqCount)
  /\ [](RxReturned /\ i2c.gKind = "rx" /\ RxFailed => call.ret = 0)
  /\ [][(pc = "idle" /\ pc' = "ret") => call'.ret = 0]_vars

-----------------------------------------------------------------------------
(* finish() has returned *)
FinishReturned == pc = "ret" /\ call.op = "finish"

(* C13: finish() returns 1 when the status at its return is I2C_WAITING   *)
(* and 0 otherwise, that status is not I2C_SENDING, I2C_SEND_ADDR or      *)
(* I2C_RECEIVING, and it is the status the return value was taken from:   *)
(* no handler changes it between the comparison and the return            *)
C13_FinishResult ==
  /\ [](FinishReturned
          => /\ call.ret = IF i2c.currentStatus = "I2C_WAITING" THEN 1 ELSE 0
             /\ ~InProgress(i2c))
  /\ [][(pc = "fin_ret" /\ call.op = "finish")
          => i2c'.currentStatus = i2c.currentStatus]_vars

C13_Witness ==
  /\ FinishReturned
  /\ i2c.gKind = "tx"
  /\ i2c.opMode = "I2C_OP_MODE_ISR"
  /\ i2c.currentStatus = "I2C_WAITING"
  /\ i2c.gWire = i2c.txBufferLength
  /\ call.ret = 1

-----------------------------------------------------------------------------
(* C14: setOpMode called while the bus is busy returns 0 and leaves the   *)
(* context as it was: opMode, C1 with its interrupt enable, activeDMA and *)
(* the DMA channel                                                        *)
C14_SetOpModeBusy ==
  [][(pc = "idle" /\ call'.op = "setOpMode" /\ BusBusy(i2c))
       => /\ call'.ret = 0
          /\ i2c'.opMode = i2c.opMode
          /\ i2c'.C1 = i2c.C1
          /\ i2c'.activeDMA = i2c.activeDMA
          /\ i2c'.DMA = i2c.DMA
          /\ i2c' = i2c]_vars

C14_Witness ==
  /\ pc = "ret"
  /\ call.op = "setOpMode"
  /\ call.ret = 0
  /\ i2c.currentStatus = "I2C_SENDING"
  /\ {"MST", "IICIE"} \subseteq i2c.C1
  /\ i2c.opMode = "I2C_OP_MODE_ISR"

-----------------------------------------------------------------------------
(* C15: whenever a callback is invoked in a slave answering to a range,  *)
(* getRxAddr() is the address matched by the transaction the callback    *)
(* handles: for on-request the transaction on the bus, for on-receive    *)
(* the write transaction that ended last                                  *)
C15_RxAddrInCallback == i2c.gCbAddr = i2c.gCbWant

-----------------------------------------------------------------------------
(* the places of txBuffer outside lo..(hi - 1) are as they were *)
TxKeptOutside(lo, hi) ==
  \A k \in DOMAIN i2c.txBuffer :
    (k < lo \/ k >= hi) => i2c'.txBuffer[k] = i2c.txBuffer[k]

(* write(data) on a full buffer returns 0, sets the write error and      *)
(* leaves buffer and length as they were; otherwise it stores one byte   *)
WriteOneStep ==
  (pc = "idle" /\ call'.op = "writeByte")
    => IF i2c.txBufferLength >= I2C_TX_BUFFER_LENGTH
       THEN /\ call'.ret = 0
            /\ i2c'.writeError
            /\ i2c'.txBuffer = i2c.txBuffer
            /\ i2c'.txBufferLength = i2c.txBufferLength
       ELSE /\ call'.ret = 1
            /\ i2c'.txBufferLength = i2c.txBufferLength + 1
            /\ i2c'.txBuffer[i2c.txBufferLength] = call'.arg
            /\ TxKeptOutside(i2c.txBufferLength, i2c'.txBufferLength)

(* write(data, quantity) stores at most capacity - txBufferLength bytes, *)
(* returns the number stored and sets the write error when it truncates  *)
WriteArrayStep ==
  (pc = "idle" /\ call'.op = "write")
    => /\ call'.ret <= I2C_TX_BUFFER_LENGTH - i2c.txBufferLength
       /\ call'.ret <= call'.arg
       /\ i2c'.txBufferLength = i2c.txBufferLength + call'.ret
       /\ \A k \in i2c.txBufferLength..(i2c'.txBufferLength - 1) :
            k \in DOMAIN i2c.txBuffer /\ i2c'.txBuffer[k] = TxData[k]
       /\ TxKeptOutside(i2c.txBufferLength, i2c'.txBufferLength)
       /\ call'.ret < call'.arg => i2c'.writeError
       /\ call'.arg <= I2C_TX_BUFFER_LENGTH - i2c.txBufferLength
            => call'.ret = call'.arg

(* C16: write(byte) at capacity returns 0, sets the write error and      *)
(* changes neither buffer nor length; write(bytes, count) stores at most *)
(* capacity - txBufferLength bytes, returns the number stored and sets   *)
(* the write error when truncating; no byte goes to a place at or above  *)
(* the capacity                                                          *)
C16_WriteBounded ==
  /\ [][WriteOneStep /\ WriteArrayStep]_vars
  /\ [](i2c.txBufferLength <= I2C_TX_BUFFER_LENGTH)

C16_Witness ==
  /\ pc = "ret"
  /\ call.op = "write"
  /\ call.ret > 0
  /\ call.ret < call.arg
  /\ i2c.writeError
  /\ i2c.txBufferLength = I2C_TX_BUFFER_LENGTH

-----------------------------------------------------------------------------
(* beginTransmission, sendTransmission or sendRequest is called in this *)
(* step, after an earlier transfer was started                          *)
NextTransferCall ==
  pc = "idle" /\ app = "first" /\ app' = "over" /\ call'.op # "setOpMode"

(* C17: a call of beginTransmission, sendTransmission or sendRequest    *)
(* made while the status is I2C_SENDING, I2C_SEND_ADDR or I2C_RECEIVING *)
(* changes neither the status, the buffers, their lengths and cursors,  *)
(* nor C1                                                               *)
C17_NoStartWhileActive ==
  [][(NextTransferCall /\ InProgress(i2c))
       => /\ i2c'.currentStatus = i2c.currentStatus
          /\ i2c'.txBuffer = i2c.txBuffer
          /\ i2c'.rxBuffer = i2c.rxBuffer
          /\ i2c'.txBufferLength = i2c.txBufferLength
          /\ i2c'.rxBufferLength = i2c.rxBufferLength
          /\ i2c'.txBufferIndex = i2c.txBufferIndex
          /\ i2c'.rxBufferIndex = i2c.rxBufferIndex
          /\ i2c'.C1 = i2c.C1]_vars

-----------------------------------------------------------------------------
(* C18: no step of finish() changes a status that is already terminal: *)
(* once the handler has ended the transfer, with I2C_WAITING or with an *)
(* error, finish() returns with that status                             *)
C18_FinishKeepsTerminal ==
  [][(call.op = "finish" /\ pc' # pc /\ done_(i2c))
       => i2c'.currentStatus = i2c.currentStatus]_vars

-----------------------------------------------------------------------------
(* a byte event of a master receive is taken in this step, by the       *)
(* handler or by the receive loop of sendRequest_                       *)
RxByteEvent ==
  /\ app' = app
  /\ i2c.gKind = "rx"
  /\ "MST" \in i2c.C1 /\ "TX" \notin i2c.C1
  /\ "IICIF" \in i2c.S /\ "IICIF" \notin i2c'.S

(* the step sees that the receive has timed out *)
TimeoutSeen ==
  \/ pc = "imm_rx_wait" /\ call.eff # 0 /\ call.expired
  \/ pc # "imm_rx_wait" /\ i2c.currentStatus = "I2C_TIMEOUT"

(* C19: the byte event at which a receive with two or more bytes         *)
(* outstanding first sees its timeout, with NAK not yet configured, sets *)
(* TXAK and stays in master receive mode; the change to transmit mode    *)
(* and the STOP come with a later byte event                             *)
C19_TimeoutNakFirst ==
  [][(/\ RxByteEvent
      /\ TimeoutSeen
      /\ "TXAK" \notin i2c.C1
      /\ i2c.rxBufferLength + 2 <= i2c.reqCount)
       => /\ {"MST", "TXAK"} \subseteq i2c'.C1
          /\ "TX" \notin i2c'.C1
          /\ ~i2c'.gStop]_vars

-----------------------------------------------------------------------------
(* the number of bytes of the transfer started last: address and data *)
(* of a transmit, requested bytes of a receive                        *)
XferLen == IF i2c.gKind = "tx" THEN i2c.txBufferLength ELSE i2c.reqCount

(* C20: in DMA mode activeDMA is I2C_DMA_BULK only in a transfer of    *)
(* DmaMinLen bytes or more; from the start of a shorter transfer on    *)
(* activeDMA is I2C_DMA_OFF, whatever the transfers before it did      *)
C20_DmaOnlyForLong ==
  /\ i2c.activeDMA = "I2C_DMA_BULK"
       => i2c.gKind # "none" /\ XferLen >= DmaMinLen
  /\ (i2c.opMode = "I2C_OP_MODE_DMA" /\ i2c.gKind # "none" /\ XferLen < DmaMinLen)
       => i2c.activeDMA = "I2C_DMA_OFF"

-----------------------------------------------------------------------------
(* arbitration was lost on the address byte of the transfer started last, *)
(* and the transfer has ended with I2C_ARB_LOST                           *)
ArbLostOnAddr ==
  /\ i2c.gKind # "none"
  /\ i2c.gArbl
  /\ i2c.gWire = 1
  /\ i2c.currentStatus = "I2C_ARB_LOST"

(* C21: when arbitration is lost on the address byte of a transmit or a  *)
(* receive of DmaMinLen bytes or more, activeDMA is I2C_DMA_OFF once the *)
(* transfer has ended with I2C_ARB_LOST                                  *)
C21_ArbLostDiscardsDma ==
  (ArbLostOnAddr /\ XferLen >= DmaMinLen) => i2c.activeDMA = "I2C_DMA_OFF"

-----------------------------------------------------------------------------
(* the handler serves an error of the DMA channel in this step: the bulk *)
(* part of the transfer is under way and the channel has not completed   *)
DmaErrorServed ==
  /\ i2c.dmaError /\ ~i2c'.dmaError
  /\ i2c.activeDMA = "I2C_DMA_BULK"
  /\ ~i2c.dmaComplete

(* the bytes the transfer started last has moved, and those it was to move *)
BytesMoved == IF i2c.gKind = "tx" THEN i2c.gWire ELSE i2c.rxBufferLength

(* C22: the handler serving a DMA error in the bulk part of a transfer    *)
(* sets activeDMA to I2C_DMA_OFF and leaves the transfer under way, the   *)
(* controller master; and a transfer in which the channel reported an     *)
(* error is never at I2C_WAITING with fewer bytes moved than asked for    *)
C22_DmaErrorContinues ==
  /\ [][DmaErrorServed
          => /\ i2c'.activeDMA = "I2C_DMA_OFF"
             /\ InProgress(i2c')
             /\ "MST" \in i2c'.C1]_vars
  /\ [](i2c.gDmaErr /\ i2c.currentStatus = "I2C_WAITING"
          => BytesMoved = XferLen)

-----------------------------------------------------------------------------
(* available() *)
available(c) == c.rxBufferLength - c.rxBufferIndex

(* C23: rxBufferIndex <= rxBufferLength <= capacity in every state, so   *)
(* available() is never negative, and no received byte is stored at a   *)
(* place at or above the capacity                                        *)
C23_RxBufferBounds ==
  /\ i2c.rxBufferIndex <= i2c.rxBufferLength
  /\ i2c.rxBufferLength <= I2C_RX_BUFFER_LENGTH
  /\ available(i2c) >= 0
  /\ ~i2c.gOvf

-----------------------------------------------------------------------------
(* C24: txBufferIndex <= txBufferLength <= capacity in every state, in a *)
(* master that fills its buffer and transmits in any mode and in a slave *)
(* that answers read transactions                                        *)
C24_TxBufferBounds ==
  /\ i2c.txBufferIndex <= i2c.txBufferLength
  /\ i2c.txBufferLength <= I2C_TX_BUFFER_LENGTH

-----------------------------------------------------------------------------
(* acquireBus_ returns success in this step, to the first transfer call *)
AcquireOk ==
  /\ app = "ready" /\ app' = "first"
  /\ i2c'.gAcq \in {"start", "rsta", "retry"}

(* the send routine goes on in its Immediate branch *)
ImmBranch == pc' \in {"imm_tx", "imm_rx_addr"}

(* C25: when acquireBus_ returns success in ISR or DMA mode, either the  *)
(* transfer is forced to the Immediate branch or the priority of the I2C *)
(* interrupt is strictly more urgent than that of the caller             *)
C25_IsrCanPreempt ==
  [][(AcquireOk /\ i2c'.opMode \in {"I2C_OP_MODE_ISR", "I2C_OP_MODE_DMA"})
       => (ImmBranch \/ irqPriority' < call'.prio)]_vars

C25_Witness ==
  /\ pc = "fin_loop"
  /\ i2c.opMode = "I2C_OP_MODE_ISR"
  /\ i2c.gAcq = "start"
  /\ call.prio = DefaultPrio
  /\ irqPriority = DefaultPrio - PrioStep

-----------------------------------------------------------------------------
(* the first transfer call finds the bus held by another master, and the *)
(* bus is still held when acquireBus_ returns: the timeout has passed    *)
(* and resetBus_ has not freed it                                        *)
BusKeptBusy ==
  /\ app = "ready" /\ app' = "first"
  /\ i2c'.gAcq # "none"
  /\ "MST" \notin i2c.C1
  /\ i2c.extBusy /\ i2c'.extBusy

(* C26: when the bus stays busy past the timeout and the retry,          *)
(* acquireBus_ fails with status I2C_TIMEOUT, the controller is not      *)
(* master, and the send routine returns without writing the data         *)
(* register and without enabling the interrupt                           *)
C26_AcquireFails ==
  [][BusKeptBusy
       => /\ i2c'.gAcq = "fail"
          /\ i2c'.currentStatus = "I2C_TIMEOUT"
          /\ "MST" \notin i2c'.C1
          /\ i2c'.gWire = 0 /\ i2c'.D = i2c.D /\ i2c'.flight = "none"
          /\ "IICIE" \notin i2c'.C1
          /\ i2c'.C1 = i2c.C1
          /\ pc' \in {"idle", "fin_loop"}]_vars

C26_Witness ==
  /\ pc = "fin_loop"
  /\ call.op = "requestFrom"
  /\ call.eff # 0
  /\ i2c.gAcq = "fail"
  /\ i2c.extBusy
  /\ i2c.currentStatus = "I2C_TIMEOUT"
  /\ i2c.C1 = {"IICEN"}

-----------------------------------------------------------------------------
(* C27: in Immediate mode a blocking transmit or receive called with a  *)
(* timeout returns, whether the peripheral completes its bytes or not   *)
C27_ImmReturns ==
  (InBlockingCall /\ i2c.opMode = "I2C_OP_MODE_IMM" /\ call.eff # 0)
    ~> (pc = "ret")

-----------------------------------------------------------------------------
(* C28: finish() called with a timeout returns, in every operating mode *)
(* and whatever activeDMA is, whether further interrupts arrive or not  *)
C28_FinishReturns ==
  (call.op = "finish" /\ pc \notin {"idle", "ret"} /\ call.eff # 0)
    ~> (pc = "ret")

-----------------------------------------------------------------------------
(* the handler is entered in this step for an interrupt-driven transmit *)
(* that a timeout has put into I2C_TIMEOUT                              *)
TimedOutTxIsr ==
  /\ pc' = pc /\ app' = app
  /\ "IICIF" \in i2c.S /\ "IICIF" \notin i2c'.S
  /\ {"MST", "TX", "IICIE"} \subseteq i2c.C1
  /\ i2c.gKind = "tx"
  /\ i2c.opMode = "I2C_OP_MODE_ISR"
  /\ i2c.currentStatus = "I2C_TIMEOUT"

(* C29: the handler entered after a timeout of an interrupt-driven       *)
(* transmit sends STOP and disables the interrupt, the controller is no  *)
(* longer master, the status stays I2C_TIMEOUT and the transmit buffer   *)
(* and its cursor are left as they are                                   *)
C29_TimeoutStops ==
  [][TimedOutTxIsr
       => /\ i2c'.gStop
          /\ "MST" \notin i2c'.C1
          /\ "IICIE" \notin i2c'.C1
          /\ i2c'.currentStatus = "I2C_TIMEOUT"
          /\ i2c'.txBufferIndex = i2c.txBufferIndex
          /\ i2c'.txBufferLength = i2c.txBufferLength
          /\ i2c'.txBuffer = i2c.txBuffer]_vars


(* C29 with the stop parameter taken into account: the handler entered   *)
(* after a timeout of an interrupt-driven transmit disables the          *)
(* interrupt and leaves status, buffer and cursor as they are; it sends  *)
(* STOP and gives up mastership when the transmit was started with       *)
(* I2C_STOP, and stays master in transmit mode, without STOP, when it    *)
(* was started with I2C_NOSTOP                                           *)
C29_TimeoutStopsIfConfigured ==
  [][TimedOutTxIsr
       => /\ "IICIE" \notin i2c'.C1
          /\ i2c'.currentStatus = "I2C_TIMEOUT"
          /\ i2c'.txBufferIndex = i2c.txBufferIndex
          /\ i2c'.txBufferLength = i2c.txBufferLength
          /\ i2c'.txBuffer = i2c.txBuffer
          /\ IF i2c.currentStop = "I2C_STOP"
             THEN i2c'.gStop /\ "MST" \notin i2c'.C1
             ELSE i2c'.gStop = i2c.gStop /\ {"MST", "TX"} \subseteq i2c'.C1]_vars

C29_Witness ==
  /\ i2c.gKind = "tx"
  /\ i2c.opMode = "I2C_OP_MODE_ISR"
  /\ i2c.currentStatus = "I2C_TIMEOUT"
  /\ i2c.currentStop = "I2C_STOP"
  /\ i2c.gAcq = "start"
  /\ i2c.gNak = -1 /\ ~i2c.gArbl
  /\ i2c.gWire < i2c.txBufferLength
  /\ i2c.C1 = {"IICEN"}
  /\ i2c.gStop
  /\ "IICIF" \notin i2c.S


-----------------------------------------------------------------------------
(* Arbitration lost during a Master Transmit *)

(* the step in which the driver takes up a transmitted byte on which      *)
(* arbitration was lost: the handler in the ISR and DMA modes, the checks *)
(* after i2c_wait_ in the Immediate mode                                  *)
ArbLostOnTx ==
  /\ i2c.gKind = "tx"
  /\ i2c.currentStatus = "I2C_SENDING"
  /\ {"ARBL", "IICIF"} \subseteq i2c.S
  /\ "IICIF" \notin i2c'.S

(* C30: when arbitration is lost on a byte of a Master Transmit the       *)
(* driver ends the transfer with status ArbitrationLost, the controller   *)
(* in receive mode, not master, interrupts disabled, txBufferIndex 0 and  *)
(* txBuffer and txBufferLength unchanged                                  *)
C30_ArbLostOnTx ==
  [][ArbLostOnTx
       => /\ i2c'.currentStatus = "I2C_ARB_LOST"
          /\ i2c'.C1 = {"IICEN"}
          /\ i2c'.txBufferIndex = 0
          /\ i2c'.txBuffer = i2c.txBuffer
          /\ i2c'.txBufferLength = i2c.txBufferLength]_vars


-----------------------------------------------------------------------------
(* Acknowledge bits of a Master Receive *)

(* the receive started last has not seen a timeout *)
RxNotTimedOut ==
  /\ i2c.gKind = "rx"
  /\ i2c.currentStatus # "I2C_TIMEOUT"
  /\ i2c.timeoutRxNAK = 0

-----------------------------------------------------------------------------
(* The phases of a DMA transfer *)

(* the address byte of the transfer has been clocked out and acknowledged *)
AddrAcked ==
  /\ i2c.flight = "none"
  /\ i2c.gWire = 1
  /\ "TCF" \in i2c.S
  /\ "RXAK" \notin i2c.S
  /\ "ARBL" \notin i2c.S

(* C32: activeDMA changes only OFF -> ADDR -> BULK -> LAST -> OFF, or    *)
(* from ADDR or BULK to OFF on NAK, arbitration loss or DMA error, and   *)
(* BULK is entered only with the address byte acknowledged               *)
C32_DmaPhases ==
  [][i2c'.activeDMA # i2c.activeDMA
       => \/ i2c.activeDMA = "I2C_DMA_OFF" /\ i2c'.activeDMA = "I2C_DMA_ADDR"
          \/ /\ i2c.activeDMA = "I2C_DMA_ADDR" /\ i2c'.activeDMA = "I2C_DMA_BULK"
             /\ AddrAcked
          \/ i2c.activeDMA = "I2C_DMA_BULK" /\ i2c'.activeDMA = "I2C_DMA_LAST"
          \/ i2c.activeDMA = "I2C_DMA_LAST" /\ i2c'.activeDMA = "I2C_DMA_OFF"
          \/ /\ i2c.activeDMA \in {"I2C_DMA_ADDR", "I2C_DMA_BULK"}
             /\ i2c'.activeDMA = "I2C_DMA_OFF"
             /\ \/ "RXAK" \in i2c.S
                \/ "ARBL" \in i2c.S
                \/ i2c.dmaError]_vars


-----------------------------------------------------------------------------
(* Bus recovery inside acquireBus_ *)

(* a transfer call runs acquireBus_ in this step *)
AcquireStep ==
  /\ pc = "idle"
  /\ app' # app
  /\ i2c' # i2c
  /\ i2c'.currentStatus # "I2C_BUF_OVF"
  /\ i2c'.gAcq # "none"

(* C33: within one acquireBus_ resetBus_ runs at most once, and only     *)
(* when the poll has ended with the bus busy and the controller not      *)
(* master (which takes a timeout); it is followed by one claim that does *)
(* not wait: the controller is master when the bus is free then, and     *)
(* otherwise the call fails with I2C_TIMEOUT and the routine returns     *)
C33_RecoveryOnce ==
  /\ [](i2c.gResets <= 1)
  /\ [](i2c.gResets = 1 <=> i2c.gAcq \in {"retry", "fail"})
  /\ [][AcquireStep
         => /\ i2c'.gResets = 1
                 => /\ "MST" \notin i2c.C1
                    /\ BusBusy(i2c)
                    /\ call'.eff # 0 \/ pc' = "idle"
            /\ i2c'.gAcq = "retry"
                 => "MST" \in i2c'.C1 /\ ~i2c'.extBusy
            /\ i2c'.gAcq = "fail"
                 => /\ i2c'.extBusy
                    /\ "MST" \notin i2c'.C1
                    /\ i2c'.currentStatus = "I2C_TIMEOUT"
                    /\ pc' \in {"idle", "fin_loop"}]_vars

C33_Witness ==
  /\ i2c.gAcq = "retry"
  /\ i2c.gResets = 1
  /\ i2c.gKind = "tx"
  /\ i2c.gWire = i2c.txBufferLength
  /\ i2c.txBufferLength > 1
  /\ i2c.currentStatus = "I2C_WAITING"
  /\ ~i2c.extBusy


-----------------------------------------------------------------------------
(* Address match while a slave receive is in progress *)

(* the handler serves an address match with the status still I2C_SLAVE_RX *)
(* and an on-receive callback registered                                  *)
RepStartServed ==
  /\ pc' = pc /\ app' = app
  /\ "MST" \notin i2c.C1
  /\ {"IAAS", "IICIF"} \subseteq i2c.S
  /\ "IICIF" \notin i2c'.S
  /\ i2c.currentStatus = "I2C_SLAVE_RX"
  /\ i2c.user_onReceive

(* C34: an address match served with the status I2C_SLAVE_RX invokes the *)
(* on-receive callback with the count of bytes received so far and the   *)
(* read cursor at 0, before rxBufferLength is cleared and rxAddr is      *)
(* updated, and before the on-request callback of the new transaction    *)
C34_RepStartCallback ==
  [][RepStartServed
       => /\ i2c'.gCbRecv = i2c.rxBufferLength
          /\ i2c'.rxBufferIndex = 0
          /\ i2c'.rxAddr = i2c.D \div 2
          /\ IF "SRW" \in i2c.S
             THEN /\ i2c'.currentStatus = "I2C_SLAVE_TX"
                  /\ i2c.user_onRequest
                       => /\ i2c'.gCbAddr = i2c'.rxAddr
                          /\ i2c'.gCbWant = i2c'.gMatch
                  /\ ~i2c.user_onRequest => i2c'.gCbAddr = i2c.rxAddr
             ELSE /\ i2c'.currentStatus = "I2C_SLAVE_RX"
                  /\ i2c'.rxBufferLength = 0
                  /\ i2c'.gCbAddr = i2c.rxAddr]_vars

C34_Witness ==
  /\ i2c.currentStatus = "I2C_SLAVE_TX"
  /\ i2c.sdaIsr
  /\ i2c.user_onReceive
  /\ i2c.rxBufferLength >= 1
  /\ i2c.gCbRecv = i2c.rxBufferLength
  /\ i2c.rxBufferIndex = 0
  /\ "IICIF" \notin i2c.S


-----------------------------------------------------------------------------
(* The on-receive callback at the end of a slave receive *)

(* the edge handler runs with the bus idle (STOP detected) in a slave    *)
(* with an on-receive callback                                           *)
StopDetected ==
  /\ pc' = pc /\ app' = app
  /\ i2c.sdaIsr /\ ~i2c'.sdaIsr
  /\ ~BusBusy(i2c)
  /\ i2c.currentMode = "I2C_SLAVE"
  /\ i2c.user_onReceive

(* C35: when the STOP of a slave receive is detected the on-receive      *)
(* callback is invoked with the count of bytes stored, at most the       *)
(* capacity, with the read cursor 0 and the status I2C_WAITING, and it   *)
(* is the only invocation for what that receive stored                   *)
C35_OnReceiveOnce ==
  /\ [][StopDetected
          => /\ i2c'.gCbRecv = i2c.rxBufferLength
             /\ i2c'.gCbRecv <= I2C_RX_BUFFER_LENGTH
             /\ i2c'.rxBufferIndex = 0
             /\ i2c'.currentStatus = "I2C_WAITING"]_vars
  /\ [](i2c.gEndedBy = "stop" => i2c.gCbN <= 1)


-----------------------------------------------------------------------------
(* The bytes of a Slave Transmit *)

(* the handler serves an address match that asks this device to transmit *)
ReadMatchServed ==
  /\ pc' = pc /\ app' = app
  /\ "MST" \notin i2c.C1
  /\ {"IAAS", "SRW", "IICIF"} \subseteq i2c.S
  /\ "IICIF" \notin i2c'.S

(* C36: the k-th byte a transmitting slave hands to the master is        *)
(* txBuffer[k], as the on-request callback wrote it, for k below         *)
(* txBufferLength and 0 from there on; with no callback registered none  *)
(* is invoked, the buffer is empty and every byte is 0                   *)
C36_SlaveTxBytes ==
  /\ [](i2c.flight = "stx"
          => /\ i2c.D = IF i2c.gSent - 1 < i2c.txBufferLength
                        THEN i2c.txBuffer[i2c.gSent - 1] ELSE 0
             /\ \A k \in 0..(i2c.txBufferLength - 1) : i2c.txBuffer[k] = 17 + k)
  /\ [][ReadMatchServed
          => /\ i2c'.gSent = 1
             /\ i2c.user_onRequest => i2c'.gCbWant = i2c'.gMatch
             /\ ~i2c.user_onRequest
                  => /\ i2c'.txBufferLength = 0
                     /\ i2c'.gCbWant = i2c.gCbWant /\ i2c'.gCbAddr = i2c.gCbAddr
                     /\ i2c'.D = 0]_vars

C36_Witness ==
  /\ i2c.currentStatus = "I2C_SLAVE_TX"
  /\ i2c.flight = "stx"
  /\ i2c.txBufferLength = 1
  /\ i2c.gSent = 2
  /\ i2c.D = 0
  /\ i2c.txBuffer[0] = 17


-----------------------------------------------------------------------------
(* Arming and disarming of the SDA edge interrupt *)

(* the edge handler runs: the only step that changes the context while   *)
(* the registers, the bus, the callbacks and the mainline stay the same  *)
EdgeTrigger ==
  /\ i2c.sdaIsr
  /\ i2c' # i2c
  /\ pc' = pc /\ app' = app
  /\ i2c'.S = i2c.S /\ i2c'.C1 = i2c.C1
  /\ i2c'.extBusy = i2c.extBusy /\ i2c'.flight = i2c.flight
  /\ i2c'.user_onReceive = i2c.user_onReceive
  /\ i2c'.user_onRequest = i2c.user_onRequest

------------------------------------------------------------------------------
(* resetBus(): the clock line is toggled while the data line reads low *)

(* the limit of the pulse loop, count++ < 10 *)
ResetMaxCount == 10

(* the number of clock pulses after which the device holding the data line *)
(* lets it go: 0 when the line is released already, ResetMaxCount + 1 when *)
(* it is not let go within the loop                                        *)
ResetHolds == 0..(ResetMaxCount + 1)

(* resetBus(): pins to digital I/O; call.idx is count, call.ret the number *)
(* of pulses driven so far, call.arg the pulses the holder needs           *)
ResetBus(hold) ==
  /\ StartXfer
  /\ pc' = "rst_loop"
  /\ call' = [NoCall EXCEPT !.op = "resetBus", !.arg = hold, !.idx = 0, !.ret = 0]
  /\ UNCHANGED <<i2c, irqPriority, dmaIrqPriority, alt>>

(* one test of while(digitalRead(sda) == 0 && count++ < 10): a pulse when  *)
(* it succeeds; otherwise the status is reset and the pins are handed back *)
ResetLoop ==
  /\ pc = "rst_loop"
  /\ IF call.ret < call.arg /\ call.idx < ResetMaxCount
     THEN /\ call' = [call EXCEPT !.idx = @ + 1, !.ret = @ + 1]
          /\ UNCHANGED <<i2c, pc>>
     ELSE /\ i2c' = resetBus_(i2c, call.ret >= call.arg)
          /\ pc' = "ret"
          /\ call' = [call EXCEPT !.idx = IF call.ret < call.arg THEN @ + 1 ELSE @]
  /\ UNCHANGED <<irqPriority, dmaIrqPriority, app, alt>>

(* a master whose bus is held by another device and that runs the bus *)
(* recovery                                                           *)
NextReset ==
  \/ \E o \in i2c_op_mode, d \in BOOLEAN : Begin("I2C_MASTER", o, d)
  \/ BusStart
  \/ \E h \in ResetHolds : ResetBus(h)
  \/ ResetLoop
  \/ Return

SpecReset == Init /\ [][NextReset]_vars

(* C38: a bus-recovery cycle drives at most nine clock pulses, none when  *)
(* the data line is released already, and no pulse after the data line    *)
(* has read released                                                      *)
C38_ResetPulses ==
  call.op = "resetBus" => /\ call.ret <= 9
                          /\ call.ret <= call.arg

(* the part that holds: at most ResetMaxCount pulses, never one more than *)
(* the holder needs                                                       *)
ResetPulsesBounded ==
  call.op = "resetBus" => /\ call.ret <= ResetMaxCount
                          /\ call.ret <= call.arg
                          /\ (pc = "ret" => call.ret = IF call.arg < ResetMaxCount
                                                       THEN call.arg ELSE ResetMaxCount)

------------------------------------------------------------------------------
(* C39: the context holds a DMA channel exactly when the operating mode is *)
(* DMA                                                                     *)
C39_DmaChannelHeld == i2c.DMA <=> i2c.opMode = "I2C_OP_MODE_DMA"

(* the part that holds: DMA mode is never entered without a channel, and a *)
(* request that finds no channel leaves ISR mode with no channel held      *)
DmaModeHasChannel == i2c.opMode = "I2C_OP_MODE_DMA" => i2c.DMA

------------------------------------------------------------------------------
(* Error counters: errCounts[7] of the context, indexed by i2c_err_count *)

(* the events of a step, by counter: a bus recovery was run, the status   *)
(* became timeout / address NAK / data NAK / arbitration lost, the bus    *)
(* was not acquired, the DMA channel reported an error                    *)
ErrEvents ==
  (IF i2c'.gResets > i2c.gResets THEN {"I2C_ERRCNT_RESET_BUS"} ELSE {})
  \cup (IF i2c'.currentStatus = "I2C_TIMEOUT" /\ i2c.currentStatus # "I2C_TIMEOUT"
           /\ i2c'.gAcq # "fail"
        THEN {"I2C_ERRCNT_TIMEOUT"} ELSE {})
  \cup (IF i2c'.currentStatus = "I2C_ADDR_NAK" /\ i2c.currentStatus # "I2C_ADDR_NAK"
        THEN {"I2C_ERRCNT_ADDR_NAK"} ELSE {})
  \cup (IF i2c'.currentStatus = "I2C_DATA_NAK" /\ i2c.currentStatus # "I2C_DATA_NAK"
        THEN {"I2C_ERRCNT_DATA_NAK"} ELSE {})
  \cup (IF i2c'.currentStatus = "I2C_ARB_LOST" /\ i2c.currentStatus # "I2C_ARB_LOST"
        THEN {"I2C_ERRCNT_ARBL"} ELSE {})
  \cup (IF i2c'.gAcq = "fail" /\ i2c.gAcq # "fail"
        THEN {"I2C_ERRCNT_NOT_ACQ"} ELSE {})
  \cup (IF i2c'.gDmaErr /\ ~i2c.gDmaErr THEN {"I2C_ERRCNT_DMA_ERR"} ELSE {})

(* C40: a step increments by one the counter of each event that occurs  *)
(* in it and changes no other counter; the counters of the model stay   *)
(* far below UINT32_MAX, where the saturating increment is an increment *)
C40_ErrorCounters ==
  [][\A k \in i2c_err_count :
       i2c'.errCounts[k] = IF k \in ErrEvents THEN i2c.errCounts[k] + 1
                           ELSE i2c.errCounts[k]]_vars

(* the part that holds: no step changes a counter *)
ErrCountsKept == [][i2c'.errCounts = i2c.errCounts]_vars

====
